---------------------------- MODULE Spec2Model ----------------------------
(***************************************************************************)
(* A model of the signal pipeline and animation state machines of the      *)
(* spectrum visualizer: BeatDetector (audio/analysis.py), the band mapping *)
(* of AudioAnalyzer (audio/analysis.py), the legacy Bar animator           *)
(* (visualization/legacy.py), the modern bar animator                      *)
(* (visualization/modern.py), the ParticleSystem                           *)
(* (visualization/particles.py), the ring buffers of the capture classes   *)
(* with their callback and render threads (audio/capture.py,               *)
(* audio/loopback.py) and the SpectrumVisualizer application (app.py).     *)
(*                                                                         *)
(* Number representation.  The program computes in floating point; the     *)
(* model computes exactly on integers:                                     *)
(*   - frame energies (RMS values) are integers in units of 0.001, and a   *)
(*     beat intensity (a quotient of energies) is an exact fraction        *)
(*     [n, d] with d > 0;                                                  *)
(*   - bar heights, band values, rates, scale factors and particle         *)
(*     coordinates are integers in units of 0.001; every product and       *)
(*     quotient is rounded toward minus infinity to that unit, one         *)
(*     operation at a time, where the program rounds to the nearest float. *)
(***************************************************************************)
EXTENDS Integers, Sequences, FiniteSets, TLC

VARIABLES
    detector,      \* BeatDetector: energy_history, cooldown_samples, sensitivity_ms
    detect_call,   \* the last BeatDetector operation and what it returned
    frames,        \* the frames fed so far: background level, burst phase and length
    settings,      \* settings.bar_animation and the canvas size of settings.visualization
    legacy,        \* LegacyRenderer._bars: the current_height of every Bar
    legacy_call,   \* the last LegacyRenderer operation and what its bars did
    modern,        \* ModernRenderer: target/current heights, peaks, peak velocities
    modern_call,   \* the last ModernRenderer operation and the band vectors fed so far
    analyzer,      \* AudioAnalyzer: rates, band count, mode, _band_freqs, _band_indices
    particles,     \* ParticleSystem: canvas, enabled, speed_multiplier, _particles
    particle_call, \* the last ParticleSystem operation and the particles before it
    capture,       \* AudioCapture / WasapiLoopbackCapture: ring buffer, running, stream
    ring_lock,     \* self._lock: the thread that holds it
    callback,      \* the audio callback thread: its position and its chunk
    reader,        \* the render thread inside the capture: its position and last result
    capture_call,  \* what was pushed, read, started and stopped so far
    app,           \* SpectrumVisualizer: capture source, analyzer, renderer, running
    ticks          \* the number of frame ticks rendered so far

vars == <<detector, detect_call, frames, settings, legacy, legacy_call,
          modern, modern_call, analyzer, particles, particle_call,
          capture, ring_lock, callback, reader, capture_call, app, ticks>>

captureVars == <<capture, ring_lock, callback, reader, capture_call>>

appVars == <<app>>

particleVars == <<particles, particle_call>>

modernVars == <<modern, modern_call>>

beatVars == <<detector, detect_call, frames>>

legacyVars == <<legacy, legacy_call>>

---------------------------------------------------------------------------
(* Arithmetic helpers *)

Max(a, b) == IF a >= b THEN a ELSE b

Min(a, b) == IF a <= b THEN a ELSE b

RECURSIVE SeqSum(_)
SeqSum(s) == IF s = <<>> THEN 0 ELSE Head(s) + SeqSum(Tail(s))

\* Fractions [n, d] with d > 0.
Frac(n, d) == [n |-> n, d |-> d]

FracLess(a, b) == a.n * b.d < b.n * a.d

FracLeq(a, b) == a.n * b.d <= b.n * a.d

FracMin(a, b) == IF FracLeq(a, b) THEN a ELSE b

\* rate * x for two numbers in units of 0.001, rounded down to the unit;
\* x is split at the unit so that no intermediate product leaves 32 bits
Scaled(rate, x) == (x \div 1000) * rate + ((x % 1000) * rate) \div 1000

\* a / b for two numbers in units of 0.001, rounded down to the unit
Quotient(a, b) == (a * 1000) \div b

\* the largest value of a function over a finite non-empty domain
MaxOf(f) == CHOOSE v \in {f[i] : i \in DOMAIN f} : \A i \in DOMAIN f : f[i] <= v

---------------------------------------------------------------------------
(* Settings, config/settings.py, and the bars of LegacyRenderer,
   visualization/legacy.py.  Heights and band values are in units of 0.001,
   growth_rate, decay_rate and trigger_threshold in units of 0.001. *)

\* Bar.max_height: int = 200
BarMaxHeight == 200 * 1000

\* Bar.min_height: int = 6
BarMinHeight == 6 * 1000

\* beat_boost = 10 if analysis.is_beat else 0
BeatBoost(is_beat) == IF is_beat THEN 10 * 1000 ELSE 0

\* settings.visualization.bar_count, the number of bars of a renderer
NumBars == 2

\* the number of frame ticks of a run with freely chosen band vectors
MaxTicks == 4

Bars == 1..NumBars

\* BarAnimationSettings: growth_rate, decay_rate and trigger_threshold at
\* their defaults (0.01, 0.015, 2.5) and at the two ends of their documented
\* ranges
Dynamics ==
    { [growth_rate |-> 10, decay_rate |-> 15, trigger_threshold |-> 2500],
      [growth_rate |-> 50, decay_rate |-> 50, trigger_threshold |-> 1000],
      [growth_rate |-> 1,  decay_rate |-> 5,  trigger_threshold |-> 5000] }

\* bar_animation as load_preset reads it from a preset file written
\* with rates beyond the sliders' range: 5 * growth_rate and 3 * decay_rate
\* both exceed 1
LoadedDynamics == [growth_rate |-> 300, decay_rate |-> 400, trigger_threshold |-> 2500]

\* BarAnimationSettings.amplitude_scale: 0 (auto), the default 15.0, and 45.0
AmplitudeScales == {0, 15 * 1000, 45 * 1000}

\* settings.visualization.height: the default and the --height of the usage text
CanvasHeights == {300, 400}

\* the part of Settings the pipeline reads: bar_animation, and mode and
\* height of visualization
MakeSettings(dyn, amplitude_scale, height, mode) ==
    [growth_rate |-> dyn.growth_rate, decay_rate |-> dyn.decay_rate,
     trigger_threshold |-> dyn.trigger_threshold,
     amplitude_scale |-> amplitude_scale, height |-> height, mode |-> mode,
     colors_enabled |-> TRUE]

\* Settings(): every section at its defaults
DefaultSettings ==
    MakeSettings([growth_rate |-> 10, decay_rate |-> 15, trigger_threshold |-> 2500],
                 15 * 1000, 300, "modern")

\* analysis.bands as the renderers receive it: silence, an even spectrum at
\* 100 and at 2000, and a spectrum with every other band at 2000
BandVectors ==
    { [i \in Bars |-> 0],
      [i \in Bars |-> 100 * 1000],
      [i \in Bars |-> 2000 * 1000],
      [i \in Bars |-> IF i % 2 = 1 THEN 2000 * 1000 ELSE 0] }

\* Bar.update: the new current_height
BarUpdate(current_height, new_height, beat_boost, a) ==
    IF new_height * 1000 > current_height * a.trigger_threshold
       /\ current_height < BarMaxHeight
    THEN current_height + Scaled(a.growth_rate, new_height) + beat_boost
    ELSE IF current_height < BarMinHeight
         THEN BarMinHeight
         ELSE current_height - Scaled(a.decay_rate, current_height)

\* the branch Bar.update takes
BarBranch(current_height, new_height, a) ==
    IF new_height * 1000 > current_height * a.trigger_threshold
       /\ current_height < BarMaxHeight
    THEN "rise"
    ELSE IF current_height < BarMinHeight THEN "snap" ELSE "fall"

\* LegacyRenderer.__init__: Bar(x = i * 13 + 100), current_height = 0.0
NewLegacy == [i \in Bars |-> 0]

\* LegacyRenderer.render, the bar loop: every bar is updated with its band
LegacyRenderBars(bars, bands, is_beat, a) ==
    [i \in Bars |-> BarUpdate(bars[i], bands[i], BeatBoost(is_beat), a)]

\* LegacyRenderer.reset: bar.current_height = 0.0 for every bar
LegacyResetBars(bars) == [i \in Bars |-> 0]

---------------------------------------------------------------------------
(* The bar animation of ModernRenderer, visualization/modern.py *)

\* self._max_bar_height = int(self.height * 0.7)
MaxBarHeight(height) == ((height * 7) \div 10) * 1000

\* the floor of np.maximum(self._current_heights, 3.0)
ModernFloor == 3 * 1000

\* self._peak_gravity = 0.5
PeakGravity == 500

\* the smoothing factor 0.15 of the auto variant
AutoSmoothing == 150

\* _update_heights_auto without np.maximum(self._current_heights, 3.0)
UpdateHeightsAuto_NoFloor(m, bands, st) ==
    LET max_height == ((st.height * 7) \div 10) * 1000
        max_val == MaxOf(bands)
        factor  == Min(Quotient(max_height, Max(max_val, 1000)),
                       Quotient(max_height, 50 * 1000))
        target  == IF max_val > 0 THEN [i \in Bars |-> Scaled(factor, bands[i])]
                   ELSE bands
        current == [i \in Bars |-> m.current_heights[i]
                        + Scaled(AutoSmoothing, target[i] - m.current_heights[i])]
    IN  [m EXCEPT !.target_heights = target, !.current_heights = current]

\* a band vector with 10 in one band and 0 in all others
OneHot(h) == [i \in Bars |-> IF i = h THEN 10 * 1000 ELSE 0]

\* analysis.bands as the modern renderer receives it
ModernBandVectors ==
    { [i \in Bars |-> 0],
      [i \in Bars |-> 100 * 1000],
      [i \in Bars |-> IF i % 2 = 1 THEN 2000 * 1000 ELSE 2 * 1000] }
    \cup { OneHot(h) : h \in Bars }

\* ModernRenderer.__init__: four arrays of zeros
NewModern ==
    [target_heights  |-> [i \in Bars |-> 0],
     current_heights |-> [i \in Bars |-> 0],
     peaks           |-> [i \in Bars |-> 0],
     peak_velocities |-> [i \in Bars |-> 0]]

\* _update_peaks without self._peaks[i] = max(self._peaks[i], self._current_heights[i])
UpdatePeak_NoClamp(current, peak, velocity) ==
    IF current > peak
    THEN [peak |-> current, velocity |-> 0]
    ELSE [peak |-> peak - (velocity + PeakGravity),
          velocity |-> velocity + PeakGravity]

\* _update_peaks, for one bar: the new (peak, velocity)
UpdatePeak(current, peak, velocity) ==
    IF current > peak
    THEN [peak |-> current, velocity |-> 0]
    ELSE [peak |-> Max(peak - (velocity + PeakGravity), current),
          velocity |-> velocity + PeakGravity]

\* _update_peaks over all bars, given the new current heights
UpdatePeaks(m, current) ==
    [m EXCEPT !.current_heights = current,
              !.peaks = [i \in Bars |->
                  UpdatePeak(current[i], m.peaks[i], m.peak_velocities[i]).peak],
              !.peak_velocities = [i \in Bars |->
                  UpdatePeak(current[i], m.peaks[i], m.peak_velocities[i]).velocity]]

\* the targets of the auto variant: bands * min(max_height / max(max_val, 1), max_height / 50)
AutoTargets(bands, max_height) ==
    LET max_val == MaxOf(bands)
        scale   == Quotient(max_height, Max(max_val, 1000))
        factor  == Min(scale, Quotient(max_height, 50 * 1000))
    IN  IF max_val > 0 THEN [i \in Bars |-> Scaled(factor, bands[i])] ELSE bands

\* _update_heights_auto
UpdateHeightsAuto(m, bands, st) ==
    LET target  == AutoTargets(bands, MaxBarHeight(st.height))
        moved   == [i \in Bars |-> m.current_heights[i]
                        + Scaled(AutoSmoothing, target[i] - m.current_heights[i])]
        current == [i \in Bars |-> Max(moved[i], ModernFloor)]
    IN  UpdatePeaks([m EXCEPT !.target_heights = target], current)

\* the targets of the parametrized variant: amplitude scaling, suppression
\* of the values below trigger_threshold, blended auto-scaling
PresetTargets(bands, st) ==
    LET max_height == MaxBarHeight(st.height)
        ratio      == Quotient(st.amplitude_scale, 15 * 1000)
        scaled     == [i \in Bars |-> Scaled(ratio, bands[i])]
        kept       == [i \in Bars |-> IF scaled[i] < st.trigger_threshold
                                      THEN Scaled(300, scaled[i]) ELSE scaled[i]]
        max_val    == MaxOf(kept)
        auto_scale == Quotient(max_height, Max(max_val, 1000))
        blend      == Min(1000, Quotient(st.amplitude_scale, 30 * 1000))
        effective  == Scaled(auto_scale, 1000 - Scaled(700, blend))
        factor     == Min(effective, Quotient(max_height, 30 * 1000))
    IN  IF max_val > 0 THEN [i \in Bars |-> Scaled(factor, kept[i])] ELSE kept

\* the asymmetric step without the cap min(1.0, ...) on the fraction
PresetStep_Uncapped(current, target, st) ==
    LET diff == target - current
    IN  IF diff > 0
        THEN current + Scaled(st.growth_rate * 5, diff)
        ELSE current + Scaled(st.decay_rate * 3, diff)

\* the asymmetric step of one bar toward its target
PresetStep(current, target, st) ==
    LET diff == target - current
    IN  IF diff > 0
        THEN current + Scaled(Min(1000, st.growth_rate * 5), diff)
        ELSE current + Scaled(Min(1000, st.decay_rate * 3), diff)

\* _update_heights without np.maximum(self._current_heights, 3.0)
UpdateHeights_NoFloor(m, bands, st) ==
    IF st.amplitude_scale = 0
    THEN UpdateHeightsAuto(m, bands, st)
    ELSE LET target  == PresetTargets(bands, st)
             current == [i \in Bars |-> PresetStep(m.current_heights[i], target[i], st)]
         IN  UpdatePeaks([m EXCEPT !.target_heights = target], current)

\* _update_heights
UpdateHeights(m, bands, st) ==
    IF st.amplitude_scale = 0
    THEN UpdateHeightsAuto(m, bands, st)
    ELSE LET target  == PresetTargets(bands, st)
             moved   == [i \in Bars |-> PresetStep(m.current_heights[i], target[i], st)]
             current == [i \in Bars |-> Max(moved[i], ModernFloor)]
         IN  UpdatePeaks([m EXCEPT !.target_heights = target], current)

\* reset without self._peak_velocities.fill(0)
ResetModern_KeepVelocities(m) ==
    [m EXCEPT !.current_heights = [i \in Bars |-> 0],
              !.target_heights  = [i \in Bars |-> 0],
              !.peaks           = [i \in Bars |-> 0]]

\* ModernRenderer.reset: the four arrays filled with 0
ResetModern(m) ==
    [m EXCEPT !.current_heights = [i \in Bars |-> 0],
              !.target_heights  = [i \in Bars |-> 0],
              !.peaks           = [i \in Bars |-> 0],
              !.peak_velocities = [i \in Bars |-> 0]]

---------------------------------------------------------------------------
(* The band mapping of AudioAnalyzer, audio/analysis.py.  Frequencies are
   in Hz; a bin index int(f / (sample_rate / buffer_size)) is computed as
   the integer quotient f * buffer_size \div sample_rate. *)

\* LEGACY_FREQ_BANDS
LegacyFreqBands ==
    << 1, 3, 5, 10, 16, 22, 26, 31, 39, 42, 45, 55, 60, 65, 70, 80, 90, 100,
       120, 140, 160, 200, 240, 280, 320, 400, 480, 560, 590, 640, 720, 800,
       960, 1024, 1120, 1280, 1600, 1920, 2240, 2560, 3200, 3340, 3590, 3720,
       3840, 4480, 5120, 6400, 7680, 8960, 10240, 12800, 15360, 15360, 15360,
       17800 >>

\* the largest band count of an analyzer in modern mode
MaxBands == 3

\* sample rates of capture devices; min(sample_rate / 2, 20000) / 20 is a
\* whole number for each of them
SampleRates == {8000, 16000, 32000, 44100, 48000}

\* FFT sizes (settings.audio.buffer_size; the default is 4096)
BufferSizes == {64, 256, 1024, 4096}

\* the band counts an analyzer is built with: in legacy mode also the
\* default bar_count 50 and a count beyond the 56-entry table
BandCounts(mode) ==
    IF mode = "legacy" THEN (1..MaxBands) \cup {50, 60} ELSE 1..MaxBands

\* min(k ^ n, cap + 1), computed without leaving the range of the integers
RECURSIVE PowCap(_, _, _)
PowCap(k, n, cap) ==
    IF n = 0 THEN 1
    ELSE LET p == PowCap(k, n - 1, cap)
         IN  IF p > cap \div k THEN cap + 1 ELSE p * k

\* the integer part of the n-th root of x, for 1 <= x <= limit ^ n
IntRoot(x, n, limit) ==
    CHOOSE k \in 1..limit :
        /\ PowCap(k, n, x) <= x
        /\ PowCap(k + 1, n, x) > x

\* _generate_log_bands: np.logspace(log10(20), log10(max_freq), num_bands + 1),
\* that is 20 * (max_freq / 20) ^ (i / num_bands) for i = 0..num_bands; the
\* inner breakpoints are rounded down to a multiple of 20 Hz
GenerateLogBands(num_bands, sample_rate) ==
    LET max_freq == Min(sample_rate \div 2, 20000)
        ratio    == max_freq \div 20
    IN  [j \in 1..(num_bands + 1) |->
            IF j = 1 THEN 20
            ELSE IF j = num_bands + 1 THEN max_freq
            ELSE 20 * IntRoot(PowCap(ratio, j - 1, 2000000000), num_bands, ratio)]

\* self._band_freqs, by mode: LEGACY_FREQ_BANDS[:num_bands + 6] or the log bands
BandFreqs(num_bands, sample_rate, mode) ==
    IF mode = "legacy"
    THEN SubSeq(LegacyFreqBands, 1, Min(num_bands + 6, Len(LegacyFreqBands)))
    ELSE GenerateLogBands(num_bands, sample_rate)

\* len(self._fft_freqs) = len(np.fft.rfftfreq(buffer_size, ...))
NumFftBins(buffer_size) == buffer_size \div 2 + 1

\* int(freq / freq_resolution), freq_resolution = sample_rate / buffer_size
RawBin(freq, sample_rate, buffer_size) == (freq * buffer_size) \div sample_rate

\* _compute_band_indices without "high_bin = max(high_bin, low_bin + 1)"
ComputeBandIndices_NoMinimum(band_freqs, sample_rate, buffer_size) ==
    [i \in 1..(Len(band_freqs) - 1) |->
        [low  |-> Min(RawBin(band_freqs[i], sample_rate, buffer_size),
                      NumFftBins(buffer_size) - 1),
         high |-> Min(RawBin(band_freqs[i + 1], sample_rate, buffer_size),
                      NumFftBins(buffer_size))]]

\* _compute_band_indices: one (low_bin, high_bin) per pair of neighbouring
\* breakpoints
ComputeBandIndices(band_freqs, sample_rate, buffer_size) ==
    [i \in 1..(Len(band_freqs) - 1) |->
        LET low_bin  == RawBin(band_freqs[i], sample_rate, buffer_size)
            high_bin == Max(RawBin(band_freqs[i + 1], sample_rate, buffer_size),
                            low_bin + 1)
        IN  [low  |-> Min(low_bin, NumFftBins(buffer_size) - 1),
             high |-> Min(high_bin, NumFftBins(buffer_size))]]

\* self._smoothing = 0.3 if mode == "modern" else 0.0, without the mode test
Smoothing_AllModes(mode) == 300

\* self._smoothing = 0.3 if mode == "modern" else 0.0
Smoothing(mode) == IF mode = "modern" THEN 300 ELSE 0

\* no analyze call has been made on the analyzer; fresh is what the band
\* extraction of the last call gave, bands what the call returned
NoAnalyzeCall ==
    [op |-> "new", magnitudes |-> <<>>, amplitude_scale |-> 0,
     fresh |-> <<>>, bands |-> <<>>]

\* AudioAnalyzer.__init__: the fields the band mapping and the smoothing
\* depend on; prev_bands <<>> stands for None
NewAnalyzer(sample_rate, buffer_size, num_bands, mode) ==
    [sample_rate |-> sample_rate, buffer_size |-> buffer_size,
     num_bands |-> num_bands, mode |-> mode,
     band_freqs |-> BandFreqs(num_bands, sample_rate, mode),
     band_indices |-> ComputeBandIndices(BandFreqs(num_bands, sample_rate, mode),
                                         sample_rate, buffer_size),
     prev_bands |-> <<>>, smoothing |-> Smoothing(mode),
     call |-> NoAnalyzeCall]

\* no analyzer has been constructed yet
NoAnalyzer ==
    [sample_rate |-> 0, buffer_size |-> 0, num_bands |-> 0, mode |-> "none",
     band_freqs |-> <<>>, band_indices |-> <<>>,
     prev_bands |-> <<>>, smoothing |-> 0, call |-> NoAnalyzeCall]

\* the integer part of the square root of x, lo <= sqrt(x) <= hi
RECURSIVE SqrtBetween(_, _, _)
SqrtBetween(x, lo, hi) ==
    IF lo >= hi THEN lo
    ELSE LET mid == (lo + hi + 1) \div 2
         IN  IF mid * mid <= x THEN SqrtBetween(x, mid, hi)
             ELSE SqrtBetween(x, lo, mid - 1)

\* np.sqrt(a * b) for a and b in units of 0.001, in units of 0.001
SqrtOfProduct(a, b) == SqrtBetween(a * b, 0, 46340)

\* self._band_freqs[min(k, len(self._band_freqs) - 1)], k counted from 0
LegacyBreakpoint(band_freqs, k) == band_freqs[Min(k, Len(band_freqs) - 1) + 1]

\* int(freq / freq_resolution), then max(0, min(bin, len(magnitudes) - 1))
LegacyBin(freq, sample_rate, buffer_size) ==
    Max(0, Min(RawBin(freq, sample_rate, buffer_size), NumFftBins(buffer_size) - 1))

\* (i / 25.0) + 0.8 without the ramp
LegacyScale_Flat(i) == 800

\* (i / 25.0) + 0.8
LegacyScale(i) == 40 * i + 800

\* _extract_bands_legacy; magnitudes[bin] for bin = 0..len(magnitudes) - 1, the
\* band of the code's index i is entry i + 1
ExtractBandsLegacy(a, magnitudes, amplitude_scale) ==
    [b \in 1..a.num_bands |->
        LET i    == b - 1
            bin1 == LegacyBin(LegacyBreakpoint(a.band_freqs, i + 1),
                              a.sample_rate, a.buffer_size)
            bin2 == LegacyBin(LegacyBreakpoint(a.band_freqs, i + 2),
                              a.sample_rate, a.buffer_size)
            bin3 == LegacyBin(LegacyBreakpoint(a.band_freqs, i + 3),
                              a.sample_rate, a.buffer_size)
            val  == (magnitudes[bin1] + 2 * magnitudes[bin2] + magnitudes[bin3]) \div 4
        IN  Scaled(LegacyScale(i),
                   Scaled(amplitude_scale, SqrtOfProduct(val, amplitude_scale)))]

\* _a_weighting(f) = ra(f) / ra(1000) in units of 0.001, at the centres
\* (band_freqs[i] + band_freqs[i + 1]) / 2 of the log bands of up to four
\* bands at the sample rates of SampleRates
AWeights ==
    { <<40, 18>>, <<50, 30>>, <<60, 44>>, <<80, 75>>, <<100, 110>>,
      <<110, 128>>, <<150, 199>>, <<170, 235>>, <<210, 303>>, <<240, 352>>,
      <<290, 429>>, <<320, 472>>, <<330, 486>>, <<360, 526>>, <<390, 564>>,
      <<610, 787>>, <<670, 832>>, <<950, 981>>, <<1090, 1028>>,
      <<1100, 1031>>, <<1780, 1136>>, <<2010, 1148>>, <<2080, 1151>>,
      <<2140, 1153>>, <<2340, 1156>>, <<2530, 1157>>, <<4010, 1116>>,
      <<4200, 1108>>, <<4540, 1090>>, <<4890, 1072>>, <<8010, 875>>,
      <<8280, 858>>, <<8860, 821>>, <<9500, 781>>, <<10010, 750>>,
      <<10310, 732>>, <<11000, 692>>, <<11770, 650>> }

AWeighting(f) == (CHOOSE p \in AWeights : p[1] = f)[2]

\* np.sqrt(np.mean(magnitudes[low:high] ** 2))
BandRms(magnitudes, low, high) ==
    LET squares == [k \in 1..(high - low) |->
                       magnitudes[low + k - 1] * magnitudes[low + k - 1]]
    IN  SqrtBetween(SeqSum(squares) \div (high - low), 0, 46340)

\* _extract_bands_modern: the RMS of the band's bins, times the A-weighting
\* of the band's centre, times 50
ExtractBandsModern(a, magnitudes) ==
    [b \in 1..a.num_bands |->
        LET low    == a.band_indices[b].low
            high   == a.band_indices[b].high
            rms    == IF /\ low < NumFftBins(a.buffer_size)
                         /\ high <= NumFftBins(a.buffer_size)
                         /\ high > low
                      THEN BandRms(magnitudes, low, high) ELSE 0
            center == (a.band_freqs[b] + a.band_freqs[b + 1]) \div 2
        IN  50 * Scaled(AWeighting(center), rms)]

\* analyze, lines 238-241: the smoothing of the fresh bands with the bands
\* the call before returned
SmoothBands(a, fresh) ==
    IF a.prev_bands # <<>> /\ a.smoothing > 0
    THEN [b \in DOMAIN fresh |->
             Scaled(a.smoothing, a.prev_bands[b])
               + Scaled(1000 - a.smoothing, fresh[b])]
    ELSE fresh

---------------------------------------------------------------------------
(* ParticleSystem, visualization/particles.py.  Coordinates and velocities
   are in units of 0.001 pixel, the canvas width and height in pixels. *)

\* the number of particles of a system (settings.particles.count)
NumParticles == 2

\* speed_multiplier: 1.0 (the legacy renderer) and 0.2 (the modern back layer)
SpeedMultipliers == {1000, 200}

\* Particle.create_random: x in [0, width], y in [0, height], dx in
\* [0.04, 0.12], dy in [-0.04, 0.04], size in {1, 2, 3}, alpha in 100..255;
\* the model draws positions at and next to the edges, the extreme
\* velocities and the extreme sizes and alphas
RandomParticles(width, height) ==
    { [x |-> x, y |-> y, size |-> sa[1], dx |-> v[1], dy |-> v[2], alpha |-> sa[2]] :
        x \in {0, width * 1000 - 300},
        y \in {0, height * 1000},
        v \in {<<40, -40>>, <<120, 40>>},
        sa \in {<<1000, 100>>, <<3000, 255>>} }

\* the wrap of one coordinate that wraps to the mirrored edge
Wrap_Mirrored(pos, extent) ==
    IF pos > extent THEN extent ELSE IF pos < 0 THEN 0 ELSE pos

\* the wrap of one coordinate: beyond the far edge to 0, below 0 to the far edge
Wrap(pos, extent) ==
    IF pos > extent THEN 0 ELSE IF pos < 0 THEN extent ELSE pos

\* the speed without the base boost of 8.0
EffectiveSpeed_NoBoost(ps) == ps.speed_multiplier

\* effective_speed = 8.0 * self.speed_multiplier
EffectiveSpeed(ps) == 8 * ps.speed_multiplier

\* the body of the loop of ParticleSystem.update for one particle
MoveParticle(p, ps) ==
    [p EXCEPT !.x = Wrap(p.x + Scaled(EffectiveSpeed(ps), p.dx), ps.width * 1000),
              !.y = Wrap(p.y + Scaled(EffectiveSpeed(ps), p.dy), ps.height * 1000)]

\* ParticleSystem.update
UpdateParticles(ps) ==
    IF ~ps.enabled THEN ps
    ELSE [ps EXCEPT !.list = [i \in DOMAIN ps.list |-> MoveParticle(ps.list[i], ps)]]

\* the particles reset() draws in the model: create_random's results in
\* the top row with the smallest size and the slowest velocity
ResetDraws(width, height) ==
    { p \in RandomParticles(width, height) :
        p.y = 0 /\ p.size = 1000 /\ p.dx = 40 }

\* ParticleSystem.reset: every particle replaced by a fresh create_random,
\* drawn holds the results of the calls in order
ResetParticles(ps, drawn) == [ps EXCEPT !.list = drawn]

\* a / b in units of 0.001, rounded to the nearest unit as a float
\* division rounds to the nearest representable value
RoundedQuotient(a, b) == (2 * a * 1000 + b) \div (2 * b)

\* rate * x in units of 0.001, rounded to the nearest unit
RoundedProduct(rate, x) == (rate * x + 500) \div 1000

\* the canvas sizes resize() is called with
CanvasSizes == {<<800, 300>>, <<800, 155>>, <<400, 300>>}

\* ParticleSystem.resize: x_scale = width / self.width, y_scale = height /
\* self.height (1 for an extent of 0), every position multiplied by its
\* scale, then the new extents stored
ResizeParticles(ps, width, height) ==
    LET x_scale == IF ps.width > 0 THEN RoundedQuotient(width, ps.width) ELSE 1000
        y_scale == IF ps.height > 0 THEN RoundedQuotient(height, ps.height) ELSE 1000
    IN  [ps EXCEPT !.list = [i \in DOMAIN ps.list |->
                                [ps.list[i] EXCEPT !.x = RoundedProduct(x_scale, @),
                                                   !.y = RoundedProduct(y_scale, @)]],
                   !.width = width, !.height = height]

\* the largest count set_count() is called with
MaxCount == NumParticles + 1

\* set_count that shrinks by dropping the first particles
SetCount_DropFirst(ps, count, drawn) ==
    LET current == Len(ps.list)
    IN  IF count > current THEN [ps EXCEPT !.list = @ \o drawn]
        ELSE IF count < current
             THEN [ps EXCEPT !.list = SubSeq(@, current - count + 1, current)]
             ELSE ps

\* ParticleSystem.set_count for count >= 0: count - current fresh particles
\* (drawn, in order) are appended, or the list is cut to its first count
SetCount(ps, count, drawn) ==
    LET current == Len(ps.list)
    IN  IF count > current THEN [ps EXCEPT !.list = @ \o drawn]
        ELSE IF count < current THEN [ps EXCEPT !.list = SubSeq(@, 1, count)]
             ELSE ps

\* ParticleSystem.toggle
ToggleParticles(ps) == [ps EXCEPT !.enabled = ~ps.enabled]

\* ParticleSystem.__init__ with the given freshly drawn particles
NewParticleSystem(width, height, speed_multiplier, list) ==
    [width |-> width, height |-> height, enabled |-> TRUE,
     speed_multiplier |-> speed_multiplier, list |-> list]

---------------------------------------------------------------------------
(* The capture classes, audio/capture.py (AudioCapture) and
   audio/loopback.py (WasapiLoopbackCapture).  A sample is a positive
   integer, its number in the order the backend delivered it; 0 is a
   sample of silence.  A chunk is the sequence of samples of one callback. *)

\* AudioCapture: self._buffer_frames = 4
AudioCaptureFrames == 4

\* WasapiLoopbackCapture: self._buffer_frames = 8
LoopbackFrames == 8

CaptureKinds == {"AudioCapture", "WasapiLoopbackCapture"}

\* the buffer_size values of the model, in samples
CaptureBufferSizes == {3}

\* the numbers of samples the backend hands to one callback
ChunkSizes == {1, 3}

\* how many samples the backend delivers in all
MaxSamples == 10

\* how many reads, and how many start() calls, the render thread makes
MaxReads == 2

MaxStarts == 2

\* deque(maxlen=...).append: a full deque drops its oldest element
DequeAppend_DropNewest(ring, chunk, maxlen) ==
    IF Len(ring) >= maxlen
    THEN Append(SubSeq(ring, 1, Len(ring) - 1), chunk)
    ELSE Append(ring, chunk)

DequeAppend(ring, chunk, maxlen) ==
    IF Len(ring) >= maxlen THEN Append(Tail(ring), chunk) ELSE Append(ring, chunk)

\* np.concatenate(list(self._ring_buffer))
RECURSIVE Concatenate(_)
Concatenate(ring) ==
    IF ring = <<>> THEN <<>> ELSE Head(ring) \o Concatenate(Tail(ring))

\* np.zeros(n)
Zeros(n) == [i \in 1..n |-> 0]

\* all_data[-n:] for n <= len(all_data)
LastSamples(all_data, n) == SubSeq(all_data, Len(all_data) - n + 1, Len(all_data))

\* get_audio_data that serves the oldest data of the ring
GetAudioData_Oldest(c) ==
    IF c.ring = <<>> THEN Zeros(c.buffer_size)
    ELSE IF c.kind = "AudioCapture" THEN c.ring[1]
    ELSE LET all_data == Concatenate(c.ring)
         IN  IF Len(all_data) >= c.buffer_size
             THEN SubSeq(all_data, 1, c.buffer_size)
             ELSE Zeros(c.buffer_size - Len(all_data)) \o all_data

\* what get_audio_data returns from inside the lock: AudioCapture the last
\* chunk, WasapiLoopbackCapture the last buffer_size samples of the
\* concatenated ring, zero-padded on the left
GetAudioData(c) ==
    IF c.ring = <<>> THEN Zeros(c.buffer_size)
    ELSE IF c.kind = "AudioCapture" THEN c.ring[Len(c.ring)]
    ELSE LET all_data == Concatenate(c.ring)
         IN  IF Len(all_data) >= c.buffer_size
             THEN LastSamples(all_data, c.buffer_size)
             ELSE Zeros(c.buffer_size - Len(all_data)) \o all_data

\* AudioCapture.get_extended_buffer
GetExtendedBuffer(c) ==
    IF c.ring = <<>> THEN Zeros(c.buffer_size) ELSE Concatenate(c.ring)

\* __init__ of either class; device says whether a device can be found
NewCapture(kind, buffer_size, device) ==
    [kind |-> kind, buffer_size |-> buffer_size,
     buffer_frames |-> IF kind = "AudioCapture" THEN AudioCaptureFrames
                       ELSE LoopbackFrames,
     ring |-> <<>>, running |-> FALSE, stream |-> FALSE, device |-> device]

\* a with self._lock block that does not give the lock back
Release_Never(thread) == thread

\* leaving a with self._lock block
Release(thread) == "free"

\* a stop() that also empties the ring
StopCapture_Clear(c) == [c EXCEPT !.running = FALSE, !.stream = FALSE, !.ring = <<>>]

\* stop(): AudioCapture returns at once when not running; both clear
\* _running and stop and drop the stream; neither touches the ring
StopCapture(c) ==
    IF c.kind = "AudioCapture" /\ ~c.running THEN c
    ELSE [c EXCEPT !.running = FALSE, !.stream = FALSE]

---------------------------------------------------------------------------
(* SpectrumVisualizer, app.py *)

\* the values of settings.audio.sample_rate and the device lists of the model
AppSampleRates == {44100, 48000}

DeviceLists == {<<>>, <<48000>>, <<48000, 44100>>}

\* how many times the device is cycled
MaxCycles == 2

\* how many frames the application's loop analyses and renders
MaxAppTicks == 2

\* the analyzer the application constructs: buffer size 1024
AppAnalyzer(sample_rate, mode) == NewAnalyzer(sample_rate, 1024, NumBars, mode)

\* _create_renderer: LegacyRenderer(settings) constructs;
\* ModernRenderer.__init__ reads settings.particles.speed, .front_speed and
\* .front_enabled, which ParticleSettings does not define, and raises
RendererConstructs(mode) == mode = "legacy"

\* _toggle_mode's new value of settings.visualization.mode
OtherMode(mode) == IF mode = "legacy" THEN "modern" ELSE "legacy"

\* SpectrumVisualizer.stop: the capture is closed and dropped, the window
\* is closed and self._window set to None
StopApp(a) ==
    [a EXCEPT !.running = FALSE, !.source = "none", !.source_running = FALSE,
              !.window = FALSE]

\* the keys of the KEYDOWN events: menu, the item keys and one other key
Keys == {"M", "D", "V", "C", "P", "S", "Q", "X"}

\* the usage text's keyboard shortcuts (while running) and what they do
KeyboardShortcuts ==
    [D |-> "cycle_device", V |-> "toggle_mode", C |-> "toggle_colors",
     P |-> "toggle_particles", S |-> "save_settings", Q |-> "stop"]

\* _setup_menu: the key and the action of the items D, V, C, P, S and Q
MenuItems ==
    [D |-> "cycle_device", V |-> "toggle_mode", C |-> "toggle_colors",
     P |-> "toggle_particles", S |-> "save_settings", Q |-> "stop"]

\* OverlayMenu.handle_key: M toggles the menu; the item keys are matched
\* only while the menu is visible; "none" is the return value False
HandleKey(visible, key) ==
    IF key = "M" THEN "toggle_menu"
    ELSE IF ~visible THEN "none"
    ELSE IF key \in DOMAIN MenuItems THEN MenuItems[key]
    ELSE "none"

\* _handle_events for one KEYDOWN event: the menu handles the key first,
\* then K_q stops the application
HandleEvent(visible, key) ==
    IF HandleKey(visible, key) # "none" THEN HandleKey(visible, key)
    ELSE IF key = "Q" THEN "stop"
    ELSE "none"

\* the pass of run() after _handle_events: rendering and the menu overlay
\* are skipped when self._window is None, dt = self._window.update() is
\* not, and raises AttributeError then
WindowUpdateRaises(a) == ~a.window

\* cycle_device of either capture: the next device of the list
NextDevice(a) == (a.device % Len(a.devices)) + 1

---------------------------------------------------------------------------
(* BeatDetector, audio/analysis.py *)

\* _history_size
HistorySize == 43

\* threshold: float = 1.5
Threshold == Frac(3, 2)

\* the cap of the returned intensity, min(intensity, 5.0)
IntensityCap == Frac(5, 1)

\* the sensitivity_ms values a BeatDetector is constructed with (the
\* analyzer passes 20.0); int((s / 1000.0) * 60) is 1 for 20 and 3 for 50
Sensitivities == {20, 30, 50}

\* the energy of a background frame, in units of 0.001, fixed per run
QuietLevels == {0, 1}

\* the energies of the other frames: 0.01 (the energy gate itself) and 1.0
LoudLevels == {10, 1000}

\* the length of the longest burst of consecutive loud frames in a run of
\* background frames
MaxBurst == 4

\* self._energy_history.append(current_energy); pop(0) beyond _history_size
\* a full history that keeps its oldest entries and drops the new energy
PushEnergy_DropNewest(history, current_energy) ==
    IF Len(history) >= HistorySize THEN history ELSE Append(history, current_energy)

PushEnergy(history, current_energy) ==
    LET appended == Append(history, current_energy)
    IN  IF Len(appended) > HistorySize THEN Tail(appended) ELSE appended

\* avg_energy > 0.001, with avg_energy = sum / len in units of 0.001
AvgAboveFloor(history) ==
    history # <<>> /\ SeqSum(history) > Len(history)

\* intensity = current_energy / avg_energy if avg_energy > 0.001 else 0.0
\* the ratio taken whenever the sum is positive, without the 0.001 floor
Intensity_NoFloor(history, current_energy) ==
    IF SeqSum(history) > 0
    THEN Frac(current_energy * Len(history), SeqSum(history))
    ELSE Frac(0, 1)

Intensity(history, current_energy) ==
    IF AvgAboveFloor(history)
    THEN Frac(current_energy * Len(history), SeqSum(history))
    ELSE Frac(0, 1)

\* cooldown_frames = int((sensitivity_ms / 1000.0) * 60); max(cooldown_frames, 1)
CooldownFrames(sensitivity_ms) == Max((sensitivity_ms * 60) \div 1000, 1)

\* detect with the comparison against the threshold turned around
IsBeat_Inverted(intensity, current_energy) ==
    FracLess(intensity, Threshold) /\ current_energy > 10

\* is_beat = intensity > self.threshold and current_energy > 0.01
IsBeat(intensity, current_energy) ==
    FracLess(Threshold, intensity) /\ current_energy > 10

\* detect that skips the cooldown branch's early return of False
DetectResult_NoSuppress(d, current_energy) ==
    LET history   == PushEnergy(d.energy_history, current_energy)
        intensity == Intensity(history, current_energy)
        is_beat   == IsBeat(intensity, current_energy)
    IN  [state |-> [d EXCEPT !.energy_history = history,
                             !.cooldown_samples =
                                 IF is_beat THEN CooldownFrames(d.sensitivity_ms)
                                 ELSE Max(d.cooldown_samples - 1, 0)],
         is_beat |-> is_beat,
         intensity |-> FracMin(intensity, IntensityCap)]

\* BeatDetector.detect: the new detector state and the returned pair
DetectResult(d, current_energy) ==
    LET history   == PushEnergy(d.energy_history, current_energy)
        intensity == Intensity(history, current_energy)
        is_beat   == IsBeat(intensity, current_energy)
    IN  IF d.cooldown_samples > 0
        THEN [state |-> [d EXCEPT !.energy_history = history,
                                  !.cooldown_samples = d.cooldown_samples - 1],
              is_beat |-> FALSE,
              intensity |-> intensity]
        ELSE [state |-> [d EXCEPT !.energy_history = history,
                                  !.cooldown_samples =
                                      IF is_beat THEN CooldownFrames(d.sensitivity_ms)
                                      ELSE d.cooldown_samples],
              is_beat |-> is_beat,
              intensity |-> FracMin(intensity, IntensityCap)]

\* BeatDetector.reset
ResetDetector(d) ==
    [d EXCEPT !.energy_history = <<>>, !.cooldown_samples = 0]

\* a freshly constructed BeatDetector
NewDetector(sensitivity_ms) ==
    [energy_history |-> <<>>, cooldown_samples |-> 0, sensitivity_ms |-> sensitivity_ms]

---------------------------------------------------------------------------
(* The state before any operation *)

\* no operation has run yet
NoCall ==
    [op |-> "new", energy |-> 0, cooldown_at_entry |-> 0, is_beat |-> FALSE,
     intensity |-> Frac(0, 1), quiet_before |-> 0, quiet_run |-> 0,
     cooldown_set |-> 0, since_trigger |-> 0, after_quiet |-> FALSE,
     resets |-> 0, once |-> NewDetector(20), dirty |-> FALSE]

\* no renderer operation has run yet
NoLegacyCall ==
    [op |-> "new", bands |-> [i \in Bars |-> 0], is_beat |-> FALSE,
     before |-> [i \in Bars |-> 0], branch |-> [i \in Bars |-> "none"],
     warmed_before |-> [i \in Bars |-> FALSE], warmed |-> [i \in Bars |-> FALSE],
     resets |-> 0, once |-> NewLegacy, dirty |-> FALSE]

\* no operation of the modern renderer has run yet; constant says that every
\* update since construction or reset was called with the same band vector.
\* In the three records, resets counts the reset() calls in a row, once is
\* the state the first of them left, and dirty says that this first reset
\* started from a state with nothing at its initial value
NoModernCall ==
    [op |-> "new", bands |-> [i \in Bars |-> 0], before |-> NewModern,
     constant |-> TRUE, resets |-> 0, once |-> NewModern, dirty |-> FALSE]

\* the detector as AudioAnalyzer.__init__ builds it, before any frame
IdleBeat ==
    /\ detector = NewDetector(20)
    /\ detect_call = NoCall
    /\ frames = [quiet |-> 0, burst |-> "before", loud |-> 0]

\* no particle operation has run yet
NoParticleCall ==
    [op |-> "new", before |-> <<>>, resets |-> 0, once |-> <<>>, count |-> 0]

\* a legacy renderer, a modern renderer as constructed, before any frame
IdleLegacy == legacy = NewLegacy /\ legacy_call = NoLegacyCall

IdleModern == modern = NewModern /\ modern_call = NoModernCall

\* no analyzer constructed
IdleAnalyzer == analyzer = NoAnalyzer

\* the threads of a capture before any callback and any call
NoCallback == [pc |-> "idle", chunk |-> <<>>]

\* from holds every sample pushed since the ring was last cleared, as it
\* was when the last read copied out
NoReader == [pc |-> "idle", op |-> "new", data |-> <<>>, seen |-> 0, from |-> <<>>]

\* nothing pushed, read, started or stopped: history holds the chunks pushed
\* since the ring was last cleared, samples the number of the last sample
\* delivered, completed the last sample whose push completed since the
\* clear; stopped is what the last stop() found and what a read just
\* before it would have returned
NoCaptureCall ==
    [history |-> <<>>, samples |-> 0, completed |-> 0, pushes |-> 0,
     reads |-> 0, starts |-> 0, started |-> FALSE,
     stopped |-> [done |-> FALSE, before |-> <<>>, view |-> <<>>]]

\* no capture object in use
IdleCapture ==
    /\ capture = NewCapture("AudioCapture", 2, FALSE)
    /\ ring_lock = "free"
    /\ callback = NoCallback
    /\ reader = NoReader
    /\ capture_call = NoCaptureCall

\* SpectrumVisualizer before start(): sample_rate is
\* settings.audio.sample_rate, devices the default sample rates of the
\* devices the backend lists, source the capture object in use with its
\* running flag, sample rate and device, renderer the variant of
\* self._renderer, age the number of frames the analyzer in use has analysed;
\* crashed says that an exception left start() or run(), capture_failed that
\* start() found no device or could not open the stream; window says that
\* self._window is a Window, menu_visible is the menu's _visible, key the
\* key of the last KEYDOWN event and fired the action it invoked
NoApp ==
    [running |-> FALSE, crashed |-> FALSE, use_loopback |-> TRUE,
     sample_rate |-> 44100, devices |-> <<>>,
     source |-> "none", source_running |-> FALSE, source_rate |-> 0, device |-> 0,
     renderer |-> "none", age |-> 0, cycles |-> 0,
     op |-> "new", capture_failed |-> FALSE,
     window |-> FALSE, menu_visible |-> FALSE,
     color_enabled |-> TRUE, particles_enabled |-> TRUE,
     key |-> "none", fired |-> "none"]

IdleApp == app = NoApp

\* a particle system without particles on the default canvas
IdleParticles ==
    /\ particles = NewParticleSystem(800, 300, 1000, <<>>)
    /\ particle_call = NoParticleCall

---------------------------------------------------------------------------
(* The BeatDetector state machine *)

InitBeat ==
    /\ \E s \in Sensitivities : detector = NewDetector(s)
    /\ detect_call = NoCall
    /\ \E q \in QuietLevels : frames = [quiet |-> q, burst |-> "before", loud |-> 0]
    /\ settings = DefaultSettings
    /\ IdleLegacy /\ IdleModern /\ IdleAnalyzer /\ IdleParticles
    /\ IdleCapture /\ IdleApp
    /\ ticks = 0

\* one call of detect on a frame of the given energy; detect_call records the
\* call: the cooldown at entry, the returned pair, how many calls in a row
\* before this one had energy 0.001, the distance to the last trigger, the
\* cooldown that trigger set and whether 43 frames of 0.001 preceded it
DetectOn(current_energy) ==
    LET r == DetectResult(detector, current_energy)
    IN  /\ detector' = r.state
        /\ detect_call' =
             [op |-> "detect",
              energy |-> current_energy,
              cooldown_at_entry |-> detector.cooldown_samples,
              is_beat |-> r.is_beat,
              intensity |-> r.intensity,
              quiet_before |-> detect_call.quiet_run,
              quiet_run |-> IF current_energy = 1
                            THEN Min(detect_call.quiet_run + 1, HistorySize)
                            ELSE 0,
              cooldown_set |-> IF r.is_beat THEN r.state.cooldown_samples
                               ELSE detect_call.cooldown_set,
              since_trigger |-> IF r.is_beat THEN 0
                                ELSE Min(detect_call.since_trigger + 1,
                                         detect_call.cooldown_set + 1),
              after_quiet |-> IF r.is_beat
                              THEN detect_call.quiet_run >= HistorySize
                              ELSE detect_call.after_quiet,
              resets |-> 0, once |-> NewDetector(20), dirty |-> FALSE]

\* a background frame; it ends the burst if one is under way
DetectQuiet ==
    /\ DetectOn(frames.quiet)
    /\ frames' = [frames EXCEPT !.burst = IF @ = "before" THEN "before" ELSE "after"]

\* a loud frame: the first or a further frame of the run's burst
DetectLoud ==
    /\ frames.burst # "after"
    /\ frames.loud < MaxBurst
    /\ \E e \in LoudLevels : DetectOn(e)
    /\ frames' = [frames EXCEPT !.burst = "in", !.loud = @ + 1]

\* reset() on the detector; a run of frames starts again after it
BeatReset ==
    /\ detect_call.resets < 2
    /\ detector' = ResetDetector(detector)
    /\ detect_call' =
         [NoCall EXCEPT !.op = "reset",
                        !.resets = detect_call.resets + 1,
                        !.once = IF detect_call.resets = 0
                                 THEN ResetDetector(detector) ELSE detect_call.once,
                        !.dirty = IF detect_call.resets = 0
                                  THEN /\ detector.energy_history # <<>>
                                       /\ detector.cooldown_samples > 0
                                  ELSE detect_call.dirty]
    /\ frames' = [frames EXCEPT !.burst = "before", !.loud = 0]

NextBeat ==
    /\ DetectQuiet \/ DetectLoud \/ BeatReset
    /\ UNCHANGED <<settings, legacyVars, modernVars, analyzer, particleVars, captureVars, appVars, ticks>>

SpecBeat == InitBeat /\ [][NextBeat]_vars

---------------------------------------------------------------------------
(* Claims about BeatDetector, checked under SpecBeat *)

\* C1: every call of detect returns an intensity in [0, 5.0], the calls
\* that return early because the cooldown counter is positive included.
C1_IntensityInRange ==
    detect_call.op = "detect" =>
        /\ FracLeq(Frac(0, 1), detect_call.intensity)
        /\ FracLeq(detect_call.intensity, IntensityCap)

\* C2: a call of detect entered with a positive cooldown counter returns
\* is_beat = False whatever the frame's energy, and leaves the counter
\* lower by exactly one.
C2_CooldownSuppresses ==
    (detect_call.op = "detect" /\ detect_call.cooldown_at_entry > 0) =>
        /\ ~detect_call.is_beat
        /\ detector.cooldown_samples = detect_call.cooldown_at_entry - 1

\* a frame of energy 1.0 whose intensity is above the threshold arrives
\* while the cooldown counter is positive
C2_Witness ==
    /\ detect_call.op = "detect"
    /\ detect_call.cooldown_at_entry > 0
    /\ detect_call.energy = 1000
    /\ FracLess(Threshold, detect_call.intensity)
    /\ ~detect_call.is_beat

\* C6: after 43 frames of energy 0.001 a frame of energy 1.0 returns
\* is_beat = True with an intensity above the threshold 1.5, and each of
\* the next C calls, C being the cooldown the trigger set, returns
\* is_beat = False, also when the burst repeats.
C6_BurstAfterQuiet ==
    /\ (detect_call.op = "detect" /\ detect_call.quiet_before >= HistorySize
            /\ detect_call.energy = 1000) =>
          (detect_call.is_beat /\ FracLess(Threshold, detect_call.intensity))
    /\ (detect_call.op = "detect" /\ detect_call.cooldown_set > 0
            /\ detect_call.since_trigger >= 1
            /\ detect_call.since_trigger <= detect_call.cooldown_set) =>
          ~detect_call.is_beat

\* the burst that triggered after 43 frames of 0.001 repeats on the last
\* of the C suppressed calls, with C > 1
C6_Witness ==
    /\ detect_call.op = "detect"
    /\ detect_call.after_quiet
    /\ detect_call.cooldown_set > 1
    /\ detect_call.since_trigger = detect_call.cooldown_set
    /\ detect_call.energy = 1000
    /\ ~detect_call.is_beat

\* C24: a call of detect that triggers a beat leaves the cooldown counter
\* at max(1, round(sensitivity_ms / 1000 * 60)), e.g. at 2 for 30 ms.
C24_CooldownRounded ==
    (detect_call.op = "detect" /\ detect_call.is_beat) =>
        detector.cooldown_samples =
            Max(1, (detector.sensitivity_ms * 60 + 500) \div 1000)

C25_HistoryWindow ==
    [][LET arrived == Append(detector.energy_history, detect_call'.energy)
           kept == Min(Len(arrived), HistorySize)
       IN  /\ detect_call'.op = "detect" =>
                 detector'.energy_history =
                     SubSeq(arrived, Len(arrived) - kept + 1, Len(arrived))
           /\ detect_call'.op = "reset" => detector'.energy_history = <<>>]_vars

\* a loud frame that arrives in cooldown on a full history pushes the
\* oldest of the 43 earlier entries out
C25_Witness ==
    /\ detect_call.op = "detect"
    /\ detect_call.cooldown_at_entry > 0
    /\ detect_call.energy = 1000
    /\ Len(detector.energy_history) = HistorySize
    /\ detector.energy_history[HistorySize] = 1000
    /\ detector.energy_history[HistorySize - 1] = 10
    /\ detector.energy_history[1] = 1

---------------------------------------------------------------------------
(* The LegacyRenderer state machine *)

InitLegacy ==
    /\ \E dyn \in Dynamics : settings = MakeSettings(dyn, 15 * 1000, 300, "legacy")
    /\ IdleBeat /\ IdleLegacy /\ IdleModern /\ IdleAnalyzer /\ IdleParticles
    /\ IdleCapture /\ IdleApp
    /\ ticks = 0

\* one frame tick of the legacy renderer; legacy_call records the heights
\* before the tick, the branch each bar took and which bars had reached
\* min_height before the tick (warmed_before) and by its end (warmed)
LegacyRender(bands, is_beat) ==
    LET after == LegacyRenderBars(legacy, bands, is_beat, settings)
    IN  /\ legacy' = after
        /\ legacy_call' =
             [op |-> "render", bands |-> bands, is_beat |-> is_beat,
              before |-> legacy,
              branch |-> [i \in Bars |-> BarBranch(legacy[i], bands[i], settings)],
              warmed_before |-> legacy_call.warmed,
              warmed |-> [i \in Bars |->
                             legacy_call.warmed[i] \/ after[i] >= BarMinHeight],
              resets |-> 0, once |-> NewLegacy, dirty |-> FALSE]

LegacyTick ==
    /\ ticks < MaxTicks
    /\ \E bands \in BandVectors, is_beat \in BOOLEAN : LegacyRender(bands, is_beat)
    /\ ticks' = ticks + 1

LegacyReset ==
    /\ legacy_call.resets < 2
    /\ legacy' = LegacyResetBars(legacy)
    /\ legacy_call' =
         [NoLegacyCall EXCEPT !.op = "reset",
                              !.resets = legacy_call.resets + 1,
                              !.once = IF legacy_call.resets = 0
                                       THEN LegacyResetBars(legacy) ELSE legacy_call.once,
                              !.dirty = IF legacy_call.resets = 0
                                        THEN \A i \in Bars : legacy[i] > 0
                                        ELSE legacy_call.dirty]
    /\ UNCHANGED ticks

NextLegacy ==
    /\ LegacyTick \/ LegacyReset
    /\ UNCHANGED <<settings, beatVars, modernVars, analyzer, particleVars, captureVars, appVars>>

SpecLegacy == InitLegacy /\ [][NextLegacy]_vars

---------------------------------------------------------------------------
(* Claims about the legacy Bar, checked under SpecLegacy *)

\* C3: the rising branch of Bar.update never yields a current_height above
\* max_height.
C3_RiseWithinMax ==
    \A i \in Bars :
        (legacy_call.op = "render" /\ legacy_call.branch[i] = "rise") =>
            legacy[i] <= BarMaxHeight

\* C4: once a bar's height has reached min_height, no later Bar.update
\* produces a height below min_height.
C4_FloorHeld ==
    \A i \in Bars :
        (legacy_call.op = "render" /\ legacy_call.warmed_before[i]) =>
            legacy[i] >= BarMinHeight

\* C26: each Bar.update of a render tick returns the height of the rule
\* "rise by growth_rate * target + beat_boost when target > current *
\* trigger_threshold and current < max_height; otherwise snap to min_height
\* when below it, else fall by decay_rate * current with the result clamped
\* to min_height", beat_boost being non-zero only on a beat frame.
C26_MatchesClampedRule ==
    \A i \in Bars :
        legacy_call.op = "render" =>
            LET current == legacy_call.before[i]
                target == legacy_call.bands[i]
                boost == BeatBoost(legacy_call.is_beat)
            IN  legacy[i] =
                  IF target * 1000 > current * settings.trigger_threshold
                     /\ current < BarMaxHeight
                  THEN current + Scaled(settings.growth_rate, target) + boost
                  ELSE IF current < BarMinHeight
                       THEN BarMinHeight
                       ELSE Max(BarMinHeight,
                                current - Scaled(settings.decay_rate, current))

---------------------------------------------------------------------------
(* The ModernRenderer state machine *)

\* the length of the longest run of ticks that are all fed the same band vector
LongRun == 60

InitModern ==
    /\ \E dyn \in Dynamics \cup {LoadedDynamics}, amp \in AmplitudeScales, h \in CanvasHeights :
           settings = MakeSettings(dyn, amp, h, "modern")
    /\ IdleBeat /\ IdleLegacy /\ IdleModern /\ IdleAnalyzer /\ IdleParticles
    /\ IdleCapture /\ IdleApp
    /\ ticks = 0

\* one call of _update_heights; modern_call records the state before it
ModernUpdate(bands) ==
    /\ modern' = UpdateHeights(modern, bands, settings)
    /\ modern_call' =
         [op |-> "update", bands |-> bands, before |-> modern,
          constant |-> \/ modern_call.op # "update"
                       \/ (modern_call.constant /\ modern_call.bands = bands),
          resets |-> 0, once |-> NewModern, dirty |-> FALSE]

\* a tick with a freely chosen band vector
ModernTick ==
    /\ ticks < MaxTicks
    /\ \E bands \in ModernBandVectors : ModernUpdate(bands)
    /\ ticks' = ticks + 1

\* a further tick of a run in which every tick is fed the same band vector
ModernHold ==
    /\ ticks >= MaxTicks
    /\ ticks < LongRun
    /\ modern_call.op = "update"
    /\ modern_call.constant
    /\ ModernUpdate(modern_call.bands)
    /\ ticks' = ticks + 1

\* ModernRenderer.reset; the run of band vectors starts again
ModernReset ==
    /\ modern_call.resets < 2
    /\ ticks < MaxTicks
    /\ modern' = ResetModern(modern)
    /\ modern_call' =
         [NoModernCall EXCEPT !.op = "reset",
                              !.resets = modern_call.resets + 1,
                              !.once = IF modern_call.resets = 0
                                       THEN ResetModern(modern) ELSE modern_call.once,
                              !.dirty = IF modern_call.resets = 0
                                        THEN \E i \in Bars :
                                               /\ modern.current_heights[i] > 0
                                               /\ modern.target_heights[i] > 0
                                               /\ modern.peaks[i] > 0
                                               /\ modern.peak_velocities[i] > 0
                                        ELSE modern_call.dirty]
    /\ UNCHANGED ticks

NextModern ==
    /\ ModernTick \/ ModernHold \/ ModernReset
    /\ UNCHANGED <<settings, beatVars, legacyVars, analyzer, particleVars, captureVars, appVars>>

SpecModern == InitModern /\ [][NextModern]_vars

---------------------------------------------------------------------------
(* Claims about the modern bar animation, checked under SpecModern *)

\* C7: in auto mode (amplitude_scale = 0), fed on every tick the band vector
\* that is 10 in one band and 0 in all others, the hot bar's height is above
\* the 3.0 floor after every tick, never decreases and stays within
\* max_bar_height, and every other bar's height is 3.0 after every tick.
C7_OneHotAuto ==
    \A h \in Bars :
        (modern_call.op = "update" /\ settings.amplitude_scale = 0
            /\ modern_call.constant /\ modern_call.bands = OneHot(h)) =>
          /\ modern.current_heights[h] > ModernFloor
          /\ modern.current_heights[h] >= modern_call.before.current_heights[h]
          /\ modern.current_heights[h] <= MaxBarHeight(settings.height)
          /\ \A i \in Bars \ {h} : modern.current_heights[i] = ModernFloor

\* the hot bar has risen on each of more than 20 one-hot ticks in a row and
\* is well above the floor, the others are at the floor
C7_Witness ==
    \E h \in Bars :
        /\ modern_call.op = "update" /\ settings.amplitude_scale = 0
        /\ modern_call.constant /\ modern_call.bands = OneHot(h)
        /\ ticks > 20
        /\ modern.current_heights[h] > modern_call.before.current_heights[h]
        /\ modern.current_heights[h] > 10 * ModernFloor
        /\ \A i \in Bars \ {h} : modern.current_heights[i] = ModernFloor

\* C27: after every call of _update_heights, with amplitude_scale = 0 and
\* with any other amplitude_scale, every bar's current height is at least
\* 3.0.
C27_FloorAfterUpdate ==
    modern_call.op = "update" =>
        \A i \in Bars : modern.current_heights[i] >= ModernFloor

\* a parametrized update whose step toward the target ends below 3.0 for
\* some bar, which the floor lifts to 3.0
C27_Witness ==
    /\ modern_call.op = "update"
    /\ settings.amplitude_scale # 0
    /\ \E i \in Bars :
          /\ modern_call.before.current_heights[i] > ModernFloor
          /\ PresetStep(modern_call.before.current_heights[i],
                        modern.target_heights[i], settings) < ModernFloor
          /\ modern.current_heights[i] = ModernFloor

\* C28: in the parametrized variant one update moves each bar from its
\* previous height toward its target by the fraction min(1, 5 * growth_rate)
\* of the gap when the target is above and min(1, 3 * decay_rate) of it
\* otherwise; the height before the 3.0 floor lies between the previous
\* height and the target, and the new height is that height or the floor.
C28_StepTowardTarget ==
    (modern_call.op = "update" /\ settings.amplitude_scale # 0) =>
        \A i \in Bars :
            LET previous == modern_call.before.current_heights[i]
                target   == modern.target_heights[i]
                fraction == IF target > previous
                            THEN Min(1000, 5 * settings.growth_rate)
                            ELSE Min(1000, 3 * settings.decay_rate)
                stepped  == PresetStep(previous, target, settings)
            IN  /\ stepped = previous + Scaled(fraction, target - previous)
                /\ Min(previous, target) <= stepped
                /\ stepped <= Max(previous, target)
                /\ modern.current_heights[i] = Max(stepped, ModernFloor)

\* with 5 * growth_rate above 1 a bar reaches a target well above its
\* previous height in one update, and another bar falls onto its target
C28_Witness ==
    /\ modern_call.op = "update"
    /\ settings.amplitude_scale # 0
    /\ 5 * settings.growth_rate > 1000
    /\ \E i \in Bars :
          /\ modern.target_heights[i] > modern_call.before.current_heights[i] + 10000
          /\ modern.current_heights[i] = modern.target_heights[i]
    /\ \E j \in Bars :
          /\ modern.target_heights[j] < modern_call.before.current_heights[j] - 10000
          /\ modern.current_heights[j] = Max(modern.target_heights[j], ModernFloor)

\* C29, as stated: after every update each peak is at least its bar's
\* height; a height above the stored peak becomes the peak with velocity 0,
\* otherwise the velocity grows by the gravity constant and the peak is the
\* stored peak less the velocity.
C29_PeakDropsByVelocity ==
    modern_call.op = "update" =>
        \A i \in Bars :
            LET height   == modern.current_heights[i]
                stored   == modern_call.before.peaks[i]
                velocity == modern_call.before.peak_velocities[i]
            IN  /\ modern.peaks[i] >= height
                /\ height > stored =>
                      /\ modern.peaks[i] = height
                      /\ modern.peak_velocities[i] = 0
                /\ height <= stored =>
                      /\ modern.peak_velocities[i] = velocity + PeakGravity
                      /\ modern.peaks[i] = stored - modern.peak_velocities[i]

\* C29, amended: as above, but in the second case the peak is the larger
\* of the stored peak less the velocity and the bar's height.
C29_PeakHeldAboveBar ==
    modern_call.op = "update" =>
        \A i \in Bars :
            LET height   == modern.current_heights[i]
                stored   == modern_call.before.peaks[i]
                velocity == modern_call.before.peak_velocities[i]
            IN  /\ modern.peaks[i] >= height
                /\ height > stored =>
                      /\ modern.peaks[i] = height
                      /\ modern.peak_velocities[i] = 0
                /\ height <= stored =>
                      /\ modern.peak_velocities[i] = velocity + PeakGravity
                      /\ modern.peaks[i] =
                            Max(stored - modern.peak_velocities[i], height)

\* a falling peak would pass below its bar and stops on it, while another
\* bar's peak is raised by a bar that has grown past it
C29_Witness ==
    /\ modern_call.op = "update"
    /\ \E i \in Bars :
          /\ modern.current_heights[i] < modern_call.before.peaks[i]
          /\ modern_call.before.peaks[i] - modern.peak_velocities[i]
                < modern.current_heights[i]
          /\ modern.peaks[i] = modern.current_heights[i]
          /\ modern.peak_velocities[i] > PeakGravity
    /\ \E j \in Bars :
          /\ modern.current_heights[j] > modern_call.before.peaks[j]
          /\ modern_call.before.peaks[j] > 0
          /\ modern.peaks[j] = modern.current_heights[j]
          /\ modern.peak_velocities[j] = 0

\* C30: whenever after an update a bar's peak equals its height, that
\* peak's velocity is 0.
C30_RestingPeakHasNoVelocity ==
    modern_call.op = "update" =>
        \A i \in Bars :
            modern.peaks[i] = modern.current_heights[i] =>
                modern.peak_velocities[i] = 0

---------------------------------------------------------------------------
(* The frame tick of SpectrumVisualizer.run on silence: analyze, then render *)

\* the number of consecutive ticks of the silent run
SilentTicks == 50

\* the bands AudioAnalyzer.analyze returns for frames of zeros: the FFT
\* magnitudes are 0, so is every legacy and modern band value, and so is
\* the smoothed mix 0.3 * prev + 0.7 * bands
SilentBands == [i \in Bars |-> 0]

InitSilence ==
    /\ \E s \in Sensitivities : detector = NewDetector(s)
    /\ detect_call = NoCall
    /\ frames = [quiet |-> 0, burst |-> "before", loud |-> 0]
    /\ \E dyn \in Dynamics, amp \in AmplitudeScales, h \in CanvasHeights,
          mode \in {"legacy", "modern"} :
           settings = MakeSettings(dyn, amp, h, mode)
    /\ IdleLegacy /\ IdleModern /\ IdleAnalyzer /\ IdleParticles
    /\ IdleCapture /\ IdleApp
    /\ ticks = 0

\* one tick in legacy mode: detect on the frame, then the bars' update
SilentTickLegacy ==
    /\ settings.mode = "legacy"
    /\ ticks < SilentTicks
    /\ DetectOn(0)
    /\ LegacyRender(SilentBands, DetectResult(detector, 0).is_beat)
    /\ ticks' = ticks + 1
    /\ UNCHANGED <<frames, settings, modernVars, analyzer, particleVars, captureVars, appVars>>

\* one tick in modern mode: detect on the frame, then _update_heights
SilentTickModern ==
    /\ settings.mode = "modern"
    /\ ticks < SilentTicks
    /\ DetectOn(0)
    /\ ModernUpdate(SilentBands)
    /\ ticks' = ticks + 1
    /\ UNCHANGED <<frames, settings, legacyVars, analyzer, particleVars, captureVars, appVars>>

NextSilence == SilentTickLegacy \/ SilentTickModern

SpecSilence == InitSilence /\ [][NextSilence]_vars

\* the heights of the active renderer's bars and their floor
ActiveHeights == IF settings.mode = "legacy" THEN legacy ELSE modern.current_heights

HeightsBefore ==
    IF settings.mode = "legacy" THEN legacy_call.before
    ELSE modern_call.before.current_heights

ActiveFloor == IF settings.mode = "legacy" THEN BarMinHeight ELSE ModernFloor

\* C5: with frames of zeros on 50 consecutive ticks from the initial state,
\* is_beat is False on every tick, a bar that is at its floor (legacy
\* min_height, modern 3.0) is still at it after the next tick, and every bar
\* is at its floor at the end of the run.
C5_SilenceSettles ==
    /\ detect_call.op = "detect" => ~detect_call.is_beat
    /\ \A i \in Bars :
           (ticks > 1 /\ HeightsBefore[i] = ActiveFloor) =>
               ActiveHeights[i] = ActiveFloor
    /\ ticks = SilentTicks => \A i \in Bars : ActiveHeights[i] = ActiveFloor

---------------------------------------------------------------------------
(* Construction of the AudioAnalyzer *)

InitBands ==
    /\ analyzer = NoAnalyzer
    /\ settings = DefaultSettings
    /\ IdleBeat /\ IdleLegacy /\ IdleModern /\ IdleParticles
    /\ IdleCapture /\ IdleApp
    /\ ticks = 0

\* AudioAnalyzer(sample_rate, buffer_size, num_bands, mode), as app.py builds
\* it at start and again on every mode toggle and device change
ConstructAnalyzer ==
    /\ \E mode \in {"legacy", "modern"} :
       \E sample_rate \in SampleRates, buffer_size \in BufferSizes,
          num_bands \in BandCounts(mode) :
           analyzer' = NewAnalyzer(sample_rate, buffer_size, num_bands, mode)
    /\ UNCHANGED <<beatVars, settings, legacyVars, modernVars, particleVars, captureVars, appVars, ticks>>

NextBands == ConstructAnalyzer

SpecBands == InitBands /\ [][NextBands]_vars

\* every pair of the mapping has high > low and high within the FFT bins
PairsWellFormed ==
    \A i \in DOMAIN analyzer.band_indices :
        /\ analyzer.band_indices[i].high > analyzer.band_indices[i].low
        /\ analyzer.band_indices[i].high <= NumFftBins(analyzer.buffer_size)

---------------------------------------------------------------------------
(* The ParticleSystem state machine *)

InitParticles ==
    /\ \E speed \in SpeedMultipliers,
          list \in [1..NumParticles -> RandomParticles(800, 300)] :
           particles = NewParticleSystem(800, 300, speed, list)
    /\ particle_call = NoParticleCall
    /\ settings = DefaultSettings
    /\ IdleBeat /\ IdleLegacy /\ IdleModern /\ IdleAnalyzer
    /\ IdleCapture /\ IdleApp
    /\ ticks = 0

\* one call of update(); particle_call records the particles before it
ParticleUpdate ==
    /\ ticks < MaxTicks
    /\ particles' = UpdateParticles(particles)
    /\ particle_call' = [NoParticleCall EXCEPT !.op = "update",
                                             !.before = particles.list]
    /\ ticks' = ticks + 1

\* one call of toggle()
ParticleToggle ==
    /\ particle_call.op # "toggle"
    /\ particles' = ToggleParticles(particles)
    /\ particle_call' = [NoParticleCall EXCEPT !.op = "toggle",
                                             !.before = particles.list]
    /\ UNCHANGED ticks

\* one call of reset(); resets counts the calls in a row and once is the
\* particle list the first of them left
ParticleReset ==
    /\ particle_call.resets < 2
    /\ \E drawn \in [DOMAIN particles.list ->
                        ResetDraws(particles.width, particles.height)] :
          /\ particles' = ResetParticles(particles, drawn)
          /\ particle_call' =
               [NoParticleCall EXCEPT !.op = "reset",
                                      !.resets = particle_call.resets + 1,
                                      !.once = IF particle_call.resets = 0
                                               THEN drawn ELSE particle_call.once]
    /\ UNCHANGED ticks

\* one call of resize(width, height) with a size other than the current one
ParticleResize ==
    /\ ticks < MaxTicks
    /\ \E size \in CanvasSizes :
          /\ size # <<particles.width, particles.height>>
          /\ particles' = ResizeParticles(particles, size[1], size[2])
    /\ particle_call' = [NoParticleCall EXCEPT !.op = "resize",
                                             !.before = particles.list]
    /\ ticks' = ticks + 1

\* one call of set_count(count); particle_call records the requested count
\* and the particles before the call
ParticleSetCount ==
    /\ ticks < MaxTicks
    /\ \E count \in 0..MaxCount :
          /\ count # Len(particles.list)
          /\ \E drawn \in [1..Max(count - Len(particles.list), 0) ->
                              ResetDraws(particles.width, particles.height)] :
                particles' = SetCount(particles, count, drawn)
          /\ particle_call' = [NoParticleCall EXCEPT !.op = "set_count",
                                                   !.count = count,
                                                   !.before = particles.list]
    /\ ticks' = ticks + 1

NextParticles ==
    /\ ParticleUpdate \/ ParticleToggle \/ ParticleReset
    /\ UNCHANGED <<beatVars, settings, legacyVars, modernVars, analyzer,
                   captureVars, appVars>>

SpecParticles == InitParticles /\ [][NextParticles]_vars

\* where update() takes a particle's x and y before it wraps them
MovedX(p) == p.x + Scaled(EffectiveSpeed(particles), p.dx)

MovedY(p) == p.y + Scaled(EffectiveSpeed(particles), p.dy)

\* C9: after one update tick a particle whose x lay above width has x = 0
\* and one whose x lay below 0 has x = width; the same for y and height.
C9_WrapToOppositeEdge ==
    (particle_call.op = "update" /\ particles.enabled) =>
        \A i \in DOMAIN particles.list :
            LET before == particle_call.before[i]
                after  == particles.list[i]
            IN  /\ MovedX(before) > particles.width * 1000 => after.x = 0
                /\ MovedX(before) < 0 => after.x = particles.width * 1000
                /\ MovedY(before) > particles.height * 1000 => after.y = 0
                /\ MovedY(before) < 0 => after.y = particles.height * 1000

\* one particle has left over the right edge and is at x = 0, one has left
\* over the top edge and is at y = height
C9_Witness ==
    /\ particle_call.op = "update" /\ particles.enabled
    /\ \E i \in DOMAIN particles.list :
          /\ MovedX(particle_call.before[i]) > particles.width * 1000
          /\ particles.list[i].x = 0
    /\ \E i \in DOMAIN particles.list :
          /\ MovedY(particle_call.before[i]) < 0
          /\ particles.list[i].y = particles.height * 1000

\* C11: reset() called twice in a row leaves the particles (positions,
\* sizes, velocities, alphas) that reset() called once left.
C11_ParticleResetTwice ==
    (particle_call.op = "reset" /\ particle_call.resets = 2) =>
        particles.list = particle_call.once

---------------------------------------------------------------------------
(* The ParticleSystem under update, resize, set_count and reset, started
   with particles in the top row *)

InitReshape ==
    /\ \E speed \in SpeedMultipliers,
          list \in [1..NumParticles -> ResetDraws(800, 300)] :
           particles = NewParticleSystem(800, 300, speed, list)
    /\ particle_call = NoParticleCall
    /\ settings = DefaultSettings
    /\ IdleBeat /\ IdleLegacy /\ IdleModern /\ IdleAnalyzer
    /\ IdleCapture /\ IdleApp
    /\ ticks = 0

NextReshape ==
    /\ \/ ParticleUpdate
       \/ ParticleResize
       \/ ParticleSetCount
       \/ ParticleReset
    /\ UNCHANGED <<beatVars, settings, legacyVars, modernVars, analyzer,
                   captureVars, appVars>>

SpecReshape == InitReshape /\ [][NextReshape]_vars

\* C31: after any sequence of update, resize, set_count and reset every
\* particle has 0 <= x <= width and 0 <= y <= height for the current width
\* and height.
C31_ParticlesInBounds ==
    \A i \in DOMAIN particles.list :
        /\ 0 <= particles.list[i].x
        /\ particles.list[i].x <= particles.width * 1000
        /\ 0 <= particles.list[i].y
        /\ particles.list[i].y <= particles.height * 1000

\* C32: after set_count(n) there are n particles, and the first
\* min(n, old count) of them are the particles that were there before,
\* unchanged and in the same order.
C32_SetCountKeepsPrefix ==
    particle_call.op = "set_count" =>
        /\ Len(particles.list) = particle_call.count
        /\ \A i \in 1..Min(particle_call.count, Len(particle_call.before)) :
              particles.list[i] = particle_call.before[i]

\* a list of two different particles has been cut to its first particle
C32_Witness ==
    /\ particle_call.op = "set_count"
    /\ particle_call.count = 1
    /\ Len(particle_call.before) = 2
    /\ particle_call.before[1] # particle_call.before[2]
    /\ particles.list = <<particle_call.before[1]>>

\* C33, as stated: every update advances each particle's position by
\* velocity * speed_multiplier before the wrap and changes no attribute of
\* a particle other than x and y.
C33_AdvanceByMultiplier ==
    particle_call.op = "update" =>
        /\ DOMAIN particles.list = DOMAIN particle_call.before
        /\ \A i \in DOMAIN particles.list :
              LET before == particle_call.before[i]
              IN  particles.list[i] =
                    [before EXCEPT
                       !.x = Wrap(@ + Scaled(particles.speed_multiplier, before.dx),
                                  particles.width * 1000),
                       !.y = Wrap(@ + Scaled(particles.speed_multiplier, before.dy),
                                  particles.height * 1000)]

\* C33, amended: an update of an enabled system advances each position by
\* velocity * 8 * speed_multiplier before the wrap and changes no other
\* attribute; an update of a disabled system changes nothing.
C33_AdvanceByBoostedSpeed ==
    particle_call.op = "update" =>
        /\ DOMAIN particles.list = DOMAIN particle_call.before
        /\ \A i \in DOMAIN particles.list :
              LET before == particle_call.before[i]
                  speed  == 8 * particles.speed_multiplier
              IN  particles.list[i] =
                    IF particles.enabled
                    THEN [before EXCEPT
                            !.x = Wrap(@ + Scaled(speed, before.dx),
                                       particles.width * 1000),
                            !.y = Wrap(@ + Scaled(speed, before.dy),
                                       particles.height * 1000)]
                    ELSE before

\* an enabled system with speed multiplier 0.2 has moved a particle right
\* and down by 1.6 times its velocity, without a wrap
C33_Witness ==
    /\ particle_call.op = "update" /\ particles.enabled
    /\ particles.speed_multiplier = 200
    /\ \E i \in DOMAIN particles.list :
          LET before == particle_call.before[i]
          IN  /\ before.dx = 120 /\ before.dy = 40
              /\ particles.list[i].x = before.x + 192
              /\ particles.list[i].y = before.y + 64

---------------------------------------------------------------------------
(* The frame tick of SpectrumVisualizer.run: analyze, then render with the
   renderer of settings.visualization.mode; reset() of the analyzer's
   detector and of the renderer *)

\* what one frame gives the pipeline: the RMS energy the detector sees and
\* the band vector the analyzer hands to the renderer
PipelineFrames ==
    { [energy |-> 0,    bands |-> [i \in Bars |-> 0]],
      [energy |-> 1,    bands |-> OneHot(1)],
      [energy |-> 20,   bands |-> [i \in Bars |-> 100 * 1000]],
      [energy |-> 1000, bands |-> [i \in Bars |-> IF i % 2 = 1 THEN 2000 * 1000
                                                  ELSE 2 * 1000]] }

Init ==
    /\ IdleBeat
    /\ \E dyn \in Dynamics, amp \in AmplitudeScales, mode \in {"legacy", "modern"} :
           settings = MakeSettings(dyn, amp, 300, mode)
    /\ IdleLegacy /\ IdleModern /\ IdleAnalyzer /\ IdleParticles
    /\ IdleCapture /\ IdleApp
    /\ ticks = 0

TickLegacy ==
    /\ settings.mode = "legacy"
    /\ ticks < MaxTicks
    /\ \E f \in PipelineFrames :
          /\ DetectOn(f.energy)
          /\ LegacyRender(f.bands, DetectResult(detector, f.energy).is_beat)
    /\ ticks' = ticks + 1
    /\ UNCHANGED <<frames, modernVars, analyzer>>

TickModern ==
    /\ settings.mode = "modern"
    /\ ticks < MaxTicks
    /\ \E f \in PipelineFrames :
          /\ DetectOn(f.energy)
          /\ ModernUpdate(f.bands)
    /\ ticks' = ticks + 1
    /\ UNCHANGED <<frames, legacyVars, analyzer>>

\* AudioAnalyzer.reset: self._prev_bands = None; self.beat_detector.reset()
ResetAnalyzer ==
    /\ BeatReset
    /\ analyzer' = [analyzer EXCEPT !.prev_bands = <<>>,
                                    !.call = [NoAnalyzeCall EXCEPT !.op = "reset"]]
    /\ UNCHANGED <<legacyVars, modernVars, ticks>>

\* LegacyRenderer.reset
ResetLegacyRenderer ==
    /\ settings.mode = "legacy"
    /\ LegacyReset
    /\ UNCHANGED <<beatVars, modernVars, analyzer>>

\* ModernRenderer.reset
ResetModernRenderer ==
    /\ settings.mode = "modern"
    /\ ModernReset
    /\ UNCHANGED <<beatVars, legacyVars, analyzer>>

Next ==
    /\ \/ TickLegacy
       \/ TickModern
       \/ ResetAnalyzer
       \/ ResetLegacyRenderer
       \/ ResetModernRenderer
    /\ UNCHANGED <<settings, particleVars, captureVars, appVars>>

Spec == Init /\ [][Next]_vars

\* C10: reset() called twice in a row leaves the state reset() called once
\* leaves: for BeatDetector an empty energy history and cooldown 0, for the
\* legacy bars every height 0, for the modern renderer every current
\* height, target, peak and peak velocity 0.
C10_ResetTwice ==
    /\ detect_call.op = "reset" =>
          /\ detector = detect_call.once
          /\ detector.energy_history = <<>>
          /\ detector.cooldown_samples = 0
    /\ legacy_call.op = "reset" =>
          /\ legacy = legacy_call.once
          /\ \A i \in Bars : legacy[i] = 0
    /\ modern_call.op = "reset" =>
          /\ modern = modern_call.once
          /\ \A i \in Bars :
                /\ modern.current_heights[i] = 0
                /\ modern.target_heights[i] = 0
                /\ modern.peaks[i] = 0
                /\ modern.peak_velocities[i] = 0

\* the detector, in the middle of a cooldown, and the renderer, with its
\* bars up, have each just been reset for the second time in a row
C10_Witness ==
    /\ detect_call.op = "reset" /\ detect_call.resets = 2 /\ detect_call.dirty
    /\ IF settings.mode = "legacy"
       THEN legacy_call.op = "reset" /\ legacy_call.resets = 2 /\ legacy_call.dirty
       ELSE modern_call.op = "reset" /\ modern_call.resets = 2 /\ modern_call.dirty

---------------------------------------------------------------------------
(* AudioAnalyzer.analyze on a constructed analyzer: band extraction by mode,
   smoothing, beat detection on the frame *)

\* the magnitude spectra of the frames analysed, magnitudes[bin] in units of
\* 0.001 for bin = 0..buffer_size / 2, each with the RMS energy of its frame
AnalyzeFrames(buffer_size) ==
    LET bins == 0..(NumFftBins(buffer_size) - 1)
    IN  { [energy |-> 0,    magnitudes |-> [b \in bins |-> 0]],
          [energy |-> 20,   magnitudes |-> [b \in bins |-> 1000 * (b % 5)]],
          [energy |-> 1000, magnitudes |-> [b \in bins |-> IF b = 0 THEN 4000 ELSE 0]],
          [energy |-> 1000, magnitudes |-> [b \in bins |->
                                IF b = NumFftBins(buffer_size) - 1 THEN 4000 ELSE 250]] }

\* how many analyze calls a run makes
MaxAnalyses == 3

\* the analyzers analyze is exercised on: buffer size 64
InitAnalyze ==
    /\ \E mode \in {"legacy", "modern"} :
       \E sample_rate \in {8000, 44100}, num_bands \in BandCounts(mode) :
           analyzer = NewAnalyzer(sample_rate, 64, num_bands, mode)
    /\ settings = DefaultSettings
    /\ IdleBeat /\ IdleLegacy /\ IdleModern /\ IdleParticles
    /\ IdleCapture /\ IdleApp
    /\ ticks = 0

\* analyze(audio_data, amplitude_scale)
Analyze ==
    /\ ticks < MaxAnalyses
    /\ \E f \in AnalyzeFrames(analyzer.buffer_size),
          amplitude_scale \in AmplitudeScales :
          LET fresh == IF analyzer.mode = "legacy"
                       THEN ExtractBandsLegacy(analyzer, f.magnitudes, amplitude_scale)
                       ELSE ExtractBandsModern(analyzer, f.magnitudes)
              bands == SmoothBands(analyzer, fresh)
          IN  /\ analyzer' =
                   [analyzer EXCEPT !.prev_bands = bands,
                                    !.call = [op |-> "analyze",
                                              magnitudes |-> f.magnitudes,
                                              amplitude_scale |-> amplitude_scale,
                                              fresh |-> fresh, bands |-> bands]]
              /\ DetectOn(f.energy)
    /\ ticks' = ticks + 1
    /\ UNCHANGED <<frames, legacyVars, modernVars>>

NextAnalyze ==
    /\ Analyze \/ ResetAnalyzer
    /\ UNCHANGED <<settings, particleVars, captureVars, appVars>>

SpecAnalyze == InitAnalyze /\ [][NextAnalyze]_vars

\* C34: in modern mode an analyze call that follows another analyze call
\* returns 0.3 * (the bands that call returned) + 0.7 * (the freshly
\* extracted bands), and the first call after construction or reset returns
\* the fresh bands; in legacy mode the returned bands are the bands
\* extracted from the current frame with the current amplitude scale.
C34_SmoothingByMode ==
    [][analyzer'.call.op = "analyze" =>
          LET this == analyzer'.call
              last == analyzer.call
          IN  IF analyzer.mode = "legacy"
              THEN this.bands = ExtractBandsLegacy(analyzer, this.magnitudes,
                                                   this.amplitude_scale)
              ELSE /\ this.fresh = ExtractBandsModern(analyzer, this.magnitudes)
                   /\ IF last.op = "analyze"
                      THEN \A b \in 1..analyzer.num_bands :
                               this.bands[b] = Scaled(300, last.bands[b])
                                                 + Scaled(700, this.fresh[b])
                      ELSE this.bands = this.fresh]_vars

\* a modern analyzer whose second or later call returned a blend above the
\* fresh band value 0
C34_Witness ==
    /\ analyzer.call.op = "analyze"
    /\ analyzer.mode = "modern"
    /\ ticks >= 2
    /\ \E b \in 1..analyzer.num_bands :
          /\ analyzer.call.fresh[b] = 0
          /\ analyzer.call.bands[b] > 0

\* the value sqrt(v * amplitudeScale) * amplitudeScale * (i / 25 + 0.8) with
\* v = (m1 + 2 * m2 + m3) / 4 for the magnitudes at the clamped bins of the
\* frequencies f1, f2, f3
LegacyBandValue(i, f1, f2, f3) ==
    LET c     == analyzer.call
        last  == analyzer.buffer_size \div 2
        m(f)  == c.magnitudes[Max(0, Min((f * analyzer.buffer_size)
                                            \div analyzer.sample_rate, last))]
        v     == (m(f1) + 2 * m(f2) + m(f3)) \div 4
        root  == SqrtBetween(v * c.amplitude_scale, 0, 46340)
    IN  Scaled(40 * i + 800, Scaled(c.amplitude_scale, root))

---------------------------------------------------------------------------
(* The menu's sliders: _adjust_amplitude, _adjust_growth, _adjust_decay and
   _adjust_threshold on the bar_animation settings main() loaded *)

\* how many slider keys a run presses
MaxAdjustments == 4

\* value + delta without the clamp
Adjusted_Unclamped(value, delta, low, high) == value + delta

\* max(low, min(high, value + delta))
Adjusted(value, delta, low, high) == Max(low, Min(high, value + delta))

\* amplitude scales the slider reaches from the default 15.0 in steps of 2
SliderAmplitudes == {1 * 1000, 15 * 1000, 45 * 1000, 99 * 1000}

\* bar_animation in the running application: from_dict reads no
\* bar_animation section, so main() starts every run at the defaults
\* (Dynamics' first record, amplitude scale 15.0); the other values are
\* ones the sliders reach from there, at the ends of the ranges
InitSliders ==
    /\ \E dyn \in Dynamics, amp \in SliderAmplitudes,
          mode \in {"legacy", "modern"} :
           settings = MakeSettings(dyn, amp, 300, mode)
    /\ IdleBeat /\ IdleLegacy /\ IdleModern /\ IdleAnalyzer /\ IdleParticles
    /\ IdleCapture /\ IdleApp
    /\ ticks = 0

\* keys "1" and "2": _adjust_amplitude(-2) and _adjust_amplitude(2)
AdjustAmplitude ==
    /\ ticks < MaxAdjustments
    /\ \E delta \in {-2000, 2000} :
          settings' = [settings EXCEPT
                          !.amplitude_scale = Adjusted(@, delta, 1000, 100 * 1000)]
    /\ ticks' = ticks + 1

\* keys "3" and "4": _adjust_growth(-0.002) and _adjust_growth(0.002)
AdjustGrowth ==
    /\ ticks < MaxAdjustments
    /\ \E delta \in {-2, 2} :
          settings' = [settings EXCEPT !.growth_rate = Adjusted(@, delta, 1, 50)]
    /\ ticks' = ticks + 1

\* keys "5" and "6": _adjust_decay(-0.003) and _adjust_decay(0.003)
AdjustDecay ==
    /\ ticks < MaxAdjustments
    /\ \E delta \in {-3, 3} :
          settings' = [settings EXCEPT !.decay_rate = Adjusted(@, delta, 5, 50)]
    /\ ticks' = ticks + 1

\* keys "7" and "8": _adjust_threshold(-0.3) and _adjust_threshold(0.3)
AdjustThreshold ==
    /\ ticks < MaxAdjustments
    /\ \E delta \in {-300, 300} :
          settings' = [settings EXCEPT
                          !.trigger_threshold = Adjusted(@, delta, 1000, 5000)]
    /\ ticks' = ticks + 1

NextSliders ==
    /\ AdjustAmplitude \/ AdjustGrowth \/ AdjustDecay \/ AdjustThreshold
    /\ UNCHANGED <<beatVars, legacyVars, modernVars, analyzer, particleVars,
                   captureVars, appVars>>

SpecSliders == InitSliders /\ [][NextSliders]_vars

\* C36: after any sequence of slider adjustments amplitude_scale is in
\* [1, 100], growth_rate in [0.001, 0.05], decay_rate in [0.005, 0.05] and
\* trigger_threshold in [1.0, 5.0]: every adjustment moves one of the four
\* values by its step (2, 0.002, 0.003, 0.3), clamped to its range, and
\* leaves the other three values as they were.
C36_SlidersInRange ==
    [][/\ settings'.amplitude_scale \in 1000..(100 * 1000)
       /\ settings'.growth_rate \in 1..50
       /\ settings'.decay_rate \in 5..50
       /\ settings'.trigger_threshold \in 1000..5000
       /\ \E f \in {"amplitude_scale", "growth_rate", "decay_rate", "trigger_threshold"} :
          LET step == CASE f = "amplitude_scale" -> 2000 [] f = "growth_rate" -> 2
                        [] f = "decay_rate" -> 3 [] OTHER -> 300
              low  == CASE f = "amplitude_scale" -> 1000 [] f = "growth_rate" -> 1
                        [] f = "decay_rate" -> 5 [] OTHER -> 1000
              high == CASE f = "amplitude_scale" -> 100000 [] f = "growth_rate" -> 50
                        [] f = "decay_rate" -> 50 [] OTHER -> 5000
          IN  /\ settings' = [settings EXCEPT ![f] = settings'[f]]
              /\ settings'[f] \in low..high
              /\ \E d \in {-step, step} :
                    settings'[f] = IF settings[f] + d < low THEN low
                                   ELSE IF settings[f] + d > high THEN high
                                   ELSE settings[f] + d]_vars

\* the amplitude slider has gone up from 99 to the end of its range, where
\* the step of 2 is cut to 1, and the decay slider up from 0.005 to 0.008
C36_Witness ==
    /\ ticks = 2
    /\ settings.amplitude_scale = 100 * 1000
    /\ settings.decay_rate = 8

---------------------------------------------------------------------------
(* Settings.to_dict and Settings.from_dict, config/settings.py, as
   save_config and load_config use them.  In this specification the
   variable settings holds a whole Settings value with its six sections,
   the dictionary last written, and the value that was written *)

\* Settings(): every section at its dataclass defaults
CreateDefault ==
    [audio |-> [device |-> "default", sample_rate |-> 44100,
                buffer_size |-> 4096, channels |-> 1],
     visualization |-> [mode |-> "modern", width |-> 800, height |-> 300,
                        fps |-> 60, bar_count |-> 50],
     colors |-> [cycle_speed |-> 20,
                 background |-> [type |-> "tuple", items |-> <<0, 0, 0>>],
                 enabled |-> TRUE],
     particles |-> [enabled |-> TRUE, count |-> 100],
     bar_animation |-> [growth_rate |-> 10, decay_rate |-> 15,
                        trigger_threshold |-> 2500, amplitude_scale |-> 15 * 1000],
     window |-> [borderless |-> FALSE, always_on_top |-> FALSE,
                 title |-> "Spectrum Visualizer"]]

\* to_dict: five sections, background as a list; no "bar_animation" key
ToDict(s) ==
    [audio |-> s.audio,
     visualization |-> s.visualization,
     colors |-> [s.colors EXCEPT !.background =
                     [type |-> "list", items |-> s.colors.background.items]],
     particles |-> s.particles,
     window |-> s.window]

\* from_dict: Settings() with every section replaced that the dictionary
\* holds; a background that is a list becomes a tuple
FromDict(data) ==
    [section \in DOMAIN CreateDefault |->
        IF section = "bar_animation" \/ section \notin DOMAIN data
        THEN CreateDefault[section]
        ELSE IF section = "colors"
        THEN [data.colors EXCEPT !.background =
                 IF @.type = "list" THEN [type |-> "tuple", items |-> @.items]
                 ELSE @]
        ELSE data[section]]

\* the Settings values saved: sections as the command line, the menu's
\* toggles and the sliders set them
SettingsValues ==
    { [CreateDefault EXCEPT !.audio.device = device,
                            !.visualization.mode = mode,
                            !.colors.enabled = colors_enabled,
                            !.colors.background.items = background,
                            !.particles.enabled = particles_enabled,
                            !.window.borderless = borderless,
                            !.bar_animation.growth_rate = dyn.growth_rate,
                            !.bar_animation.decay_rate = dyn.decay_rate,
                            !.bar_animation.trigger_threshold = dyn.trigger_threshold,
                            !.bar_animation.amplitude_scale = amp] :
        device \in {"default", "Stereo Mix"}, mode \in {"legacy", "modern"},
        colors_enabled \in BOOLEAN, background \in {<<0, 0, 0>>, <<10, 20, 30>>},
        particles_enabled \in BOOLEAN, borderless \in BOOLEAN,
        dyn \in Dynamics, amp \in SliderAmplitudes }

\* no configuration file written yet
NoFile == [written |-> FALSE]

InitConfig ==
    /\ \E s \in SettingsValues :
           settings = [value |-> s, file |-> NoFile, saved |-> s, op |-> "new"]
    /\ IdleBeat /\ IdleLegacy /\ IdleModern /\ IdleAnalyzer /\ IdleParticles
    /\ IdleCapture /\ IdleApp
    /\ ticks = 0

\* save_config: data = settings.to_dict(), dumped to the file
SaveConfig ==
    /\ settings.op = "new"
    /\ settings' = [settings EXCEPT
                        !.file = [written |-> TRUE, data |-> ToDict(settings.value)],
                        !.saved = settings.value,
                        !.op = "saved"]

\* load_config of the next run: Settings.from_dict(data) of the file
LoadConfig ==
    /\ settings.op = "saved"
    /\ settings' = [settings EXCEPT !.value = FromDict(settings.file.data),
                                    !.op = "loaded"]

NextConfig ==
    /\ SaveConfig \/ LoadConfig
    /\ UNCHANGED <<beatVars, legacyVars, modernVars, analyzer, particleVars,
                   captureVars, appVars, ticks>>

SpecConfig == InitConfig /\ [][NextConfig]_vars

\* C37: for every Settings value s, from_dict(to_dict(s)) equals s in every
\* field of every section (audio, visualization, colors, particles,
\* bar_animation, window): settings saved and loaded back are the settings
\* that were saved.
C37_RoundTripRestores ==
    settings.op = "loaded" =>
        \A section \in DOMAIN CreateDefault :
            settings.value[section] = settings.saved[section]

\* the sections to_dict writes come back as they were saved
RoundTripOfWrittenSections ==
    settings.op = "loaded" =>
        \A section \in DOMAIN CreateDefault \ {"bar_animation"} :
            settings.value[section] = settings.saved[section]

---------------------------------------------------------------------------
(* The capture state machine: the audio callback thread pushes chunks while
   the render thread starts, reads and stops the capture *)

InitCapture ==
    /\ \E kind \in CaptureKinds, buffer_size \in CaptureBufferSizes,
          device \in BOOLEAN :
           capture = NewCapture(kind, buffer_size, device)
    /\ ring_lock = "free"
    /\ callback = NoCallback
    /\ reader = NoReader
    /\ capture_call = NoCaptureCall
    /\ settings = DefaultSettings
    /\ IdleBeat /\ IdleLegacy /\ IdleModern /\ IdleAnalyzer /\ IdleParticles
    /\ IdleApp
    /\ ticks = 0

\* _audio_callback up to the lock: the backend delivers a chunk, the
\* callback converts it to mono outside the lock
CallbackBegin ==
    /\ capture.stream /\ capture.running
    /\ callback.pc = "idle"
    /\ \E size \in ChunkSizes :
          /\ capture_call.samples + size <= MaxSamples
          /\ callback' = [pc |-> "ready",
                          chunk |-> [i \in 1..size |-> capture_call.samples + i]]
          /\ capture_call' = [capture_call EXCEPT !.samples = @ + size,
                                                  !.pushes = @ + 1]
    /\ UNCHANGED <<capture, ring_lock, reader>>

\* with self._lock: the callback thread takes the lock
CallbackAcquire ==
    /\ callback.pc = "ready"
    /\ ring_lock = "free"
    /\ ring_lock' = "callback"
    /\ callback' = [callback EXCEPT !.pc = "append"]
    /\ UNCHANGED <<capture, reader, capture_call>>

\* self._ring_buffer.append(audio_data.copy()) and the end of the with block
CallbackAppend ==
    /\ callback.pc = "append"
    /\ capture' = [capture EXCEPT
                      !.ring = DequeAppend(@, callback.chunk, capture.buffer_frames)]
    /\ ring_lock' = Release("callback")
    /\ callback' = NoCallback
    /\ capture_call' =
         [capture_call EXCEPT !.history = Append(@, callback.chunk),
                              !.completed = callback.chunk[Len(callback.chunk)]]
    /\ UNCHANGED reader

\* the render thread calls get_audio_data, or get_extended_buffer of an
\* AudioCapture
ReadBegin ==
    /\ reader.pc = "idle"
    /\ capture_call.reads < MaxReads
    /\ \E op \in {"get", "extended"} :
          /\ op = "extended" => capture.kind = "AudioCapture"
          /\ reader' = [NoReader EXCEPT !.pc = "wait", !.op = op]
    /\ capture_call' = [capture_call EXCEPT !.reads = @ + 1]
    /\ UNCHANGED <<capture, ring_lock, callback>>

\* with self._lock: the render thread takes the lock; seen is the last
\* sample whose push had completed by then
ReadAcquire ==
    /\ reader.pc = "wait"
    /\ ring_lock = "free"
    /\ ring_lock' = "render"
    /\ reader' = [reader EXCEPT !.pc = "copy", !.seen = capture_call.completed]
    /\ UNCHANGED <<capture, callback, capture_call>>

\* the copy-out and the end of the with block
ReadCopy ==
    /\ reader.pc = "copy"
    /\ reader' = [reader EXCEPT
                     !.pc = "idle",
                     !.data = IF reader.op = "get" THEN GetAudioData(capture)
                              ELSE GetExtendedBuffer(capture),
                     !.from = Concatenate(capture_call.history)]
    /\ ring_lock' = Release("render")
    /\ UNCHANGED <<capture, callback, capture_call>>

\* start() up to the try block: nothing to do when already running, an
\* error when no device can be found
StartBegin ==
    /\ reader.pc = "idle"
    /\ capture_call.starts < MaxStarts
    /\ capture_call' = [capture_call EXCEPT !.starts = @ + 1]
    /\ reader' = [NoReader EXCEPT
                     !.pc = IF ~capture.running /\ capture.device
                            THEN "clear" ELSE "idle",
                     !.op = IF capture.running THEN "start_running"
                            ELSE IF ~capture.device THEN "start_failed"
                            ELSE "start"]
    /\ UNCHANGED <<capture, ring_lock, callback>>

\* self._ring_buffer.clear() in start(), outside any with self._lock
StartClear ==
    /\ reader.pc = "clear"
    /\ capture' = [capture EXCEPT !.ring = <<>>]
    /\ capture_call' = [capture_call EXCEPT !.history = <<>>,
                                            !.completed = 0,
                                            !.stopped = NoCaptureCall.stopped]
    /\ reader' = [reader EXCEPT !.pc = "open"]
    /\ UNCHANGED <<ring_lock, callback>>

\* the outcomes of the try block of start(): the stream is opened and
\* started; opening it raises; it is opened and assigned to self._stream
\* and starting it raises
StartOutcomes == {"started", "open_raised", "start_raised"}

\* the rest of the try block of start(): self._stream is assigned once the
\* stream is open, _running is set once it has started; the except block
\* sets _running = False and raises again
StartOpen ==
    /\ reader.pc = "open"
    /\ \E outcome \in StartOutcomes :
          LET opened == outcome = "started"
          IN  /\ capture' = [capture EXCEPT
                                !.running = opened,
                                !.stream = @ \/ outcome # "open_raised"]
              /\ reader' = [reader EXCEPT !.pc = "idle",
                                          !.op = IF opened THEN "start"
                                                 ELSE "start_failed"]
              /\ capture_call' = [capture_call EXCEPT
                                     !.started = @ \/ outcome # "open_raised"]
    /\ UNCHANGED <<ring_lock, callback>>

\* cycle_device(): without a device nothing changes (the loopback class
\* raises); a running capture is stopped, the next device selected and
\* start() entered; a stopped capture only selects the next device
CycleDevice ==
    /\ reader.pc = "idle"
    /\ capture_call.starts < MaxStarts
    /\ capture.running => callback.pc = "idle"
    /\ IF capture.device /\ capture.running
       THEN /\ capture' = StopCapture(capture)
            /\ reader' = [NoReader EXCEPT !.pc = "clear", !.op = "cycle"]
            /\ capture_call' =
                 [capture_call EXCEPT
                     !.starts = @ + 1,
                     !.stopped = [done |-> TRUE, before |-> capture,
                                  view |-> GetAudioData(capture)]]
       ELSE /\ reader' = [NoReader EXCEPT !.op = IF capture.device THEN "cycle"
                                                 ELSE "cycle_failed"]
            /\ capture_call' = [capture_call EXCEPT !.starts = @ + 1]
            /\ UNCHANGED capture
    /\ UNCHANGED <<ring_lock, callback>>

\* stop(); stopping the stream returns once no callback is in progress
StopStream ==
    /\ reader.pc = "idle"
    /\ reader.op # "stop"
    /\ callback.pc = "idle"
    /\ capture' = StopCapture(capture)
    /\ reader' = [NoReader EXCEPT !.op = "stop"]
    /\ capture_call' =
         [capture_call EXCEPT !.stopped = [done |-> TRUE, before |-> capture,
                                           view |-> GetAudioData(capture)]]
    /\ UNCHANGED <<ring_lock, callback>>

NextCapture ==
    /\ \/ CallbackBegin
       \/ CallbackAcquire
       \/ CallbackAppend
       \/ ReadBegin
       \/ ReadAcquire
       \/ ReadCopy
       \/ StartBegin
       \/ StartClear
       \/ StartOpen
       \/ StopStream
       \/ CycleDevice
    /\ UNCHANGED <<beatVars, settings, legacyVars, modernVars, analyzer,
                   particleVars, appVars, ticks>>

SpecCapture == InitCapture /\ [][NextCapture]_vars

\* the last n samples of all_data, with zeros on the left when it is shorter
MostRecent(all_data, n) ==
    IF Len(all_data) >= n THEN LastSamples(all_data, n)
    ELSE Zeros(n - Len(all_data)) \o all_data

\* C12: get_audio_data of either class returns exactly buffer_size samples,
\* the most recent ones pushed, right-aligned after zeros when fewer were
\* pushed, whatever the sizes of the pushed chunks.
C12_LatestSamples ==
    (reader.pc = "idle" /\ reader.op = "get") =>
        /\ Len(reader.data) = capture.buffer_size
        /\ reader.data = MostRecent(reader.from, capture.buffer_size)

\* the last n elements of a sequence, all of it when it is shorter
LastChunks(history, n) ==
    IF Len(history) <= n THEN history
    ELSE SubSeq(history, Len(history) - n + 1, Len(history))

\* C13: after k pushes since the last start the ring holds exactly the
\* min(k, capacity) most recently pushed chunks in arrival order, with
\* capacity >= 4; its length never exceeds the capacity.
C13_RingHoldsLatest ==
    /\ capture.buffer_frames >= 4
    /\ Len(capture.ring) = Min(Len(capture_call.history), capture.buffer_frames)
    /\ capture.ring = LastChunks(capture_call.history, capture.buffer_frames)

\* a loopback ring that has evicted its oldest chunk
C13_Witness ==
    /\ capture.kind = "WasapiLoopbackCapture"
    /\ Len(capture_call.history) > capture.buffer_frames
    /\ Len(capture.ring) = capture.buffer_frames
    /\ capture.ring[1] = capture_call.history[2]

\* C14: every access to the ring (the callback's append, the copy-out of a
\* read, the clear of start) is made by a thread that holds the ring lock.
C14_RingAccessLocked ==
    /\ callback.pc = "append" => ring_lock = "callback"
    /\ reader.pc \in {"copy", "clear"} => ring_lock = "render"

\* C15: a get_audio_data that takes the lock after a push has completed
\* returns data that ends with that push's chunk or a later one.
C15_ReadSeesCompletedPush ==
    (reader.pc = "idle" /\ reader.op = "get" /\ reader.seen > 0) =>
        /\ reader.data # <<>>
        /\ reader.data[Len(reader.data)] >= reader.seen

\* a read has returned the second chunk while the callback holds a third
C15_Witness ==
    /\ reader.pc = "idle" /\ reader.op = "get"
    /\ Len(capture_call.history) >= 2
    /\ reader.seen = capture_call.completed
    /\ reader.data[Len(reader.data)] = reader.seen
    /\ callback.pc = "ready"

\* C39: for AudioCapture and WasapiLoopbackCapture, after any sequence of
\* start, stop and cycle_device calls, failing starts included, is_running
\* is true exactly when a stream object is held.
C39_RunningIffStreamHeld ==
    reader.pc = "idle" => (capture.running <=> capture.stream)

\* a step of the capture that leaves the rest of the program alone
CaptureStep(A) ==
    A /\ UNCHANGED <<beatVars, settings, legacyVars, modernVars, analyzer,
                     particleVars, appVars, ticks>>

\* fair scheduling: a thread that is again and again able to take the lock
\* takes it, and a thread inside the with block leaves it
SpecCaptureFair ==
    /\ InitCapture /\ [][NextCapture]_vars
    /\ SF_vars(CaptureStep(CallbackAcquire))
    /\ WF_vars(CaptureStep(CallbackAppend))
    /\ SF_vars(CaptureStep(ReadAcquire))
    /\ WF_vars(CaptureStep(ReadCopy))

\* C16: under fair scheduling every push and every read completes: the
\* callback that has a chunk gets it into the ring, the read that was
\* called returns.
C16_PushAndReadComplete ==
    /\ (callback.pc = "ready") ~> (callback.pc = "idle")
    /\ (reader.pc = "wait") ~> (reader.pc = "idle" /\ reader.data # <<>>)

\* the callback waits with its chunk while a read holds the lock
C16_Witness ==
    /\ callback.pc = "ready"
    /\ reader.pc = "copy"
    /\ ring_lock = "render"

\* C17: stop() leaves the ring as it was, a stop() of a capture that was
\* never started changes nothing, and get_audio_data after the stop
\* returns what it returned just before it.
C17_StopKeepsRing ==
    /\ reader.op = "stop" =>
          /\ capture.ring = capture_call.stopped.before.ring
          /\ ~capture_call.started => capture = capture_call.stopped.before
    /\ (capture_call.stopped.done /\ reader.pc = "idle" /\ reader.op = "get") =>
          reader.data = capture_call.stopped.view

\* a capture with chunks in its ring was stopped and then read
C17_Witness ==
    /\ capture_call.stopped.done
    /\ capture_call.stopped.before.running
    /\ reader.pc = "idle" /\ reader.op = "get"
    /\ capture.ring # <<>>
    /\ reader.data = capture_call.stopped.view

---------------------------------------------------------------------------
(* The application state machine: start, frame ticks, mode toggles, device
   cycles and quit of SpectrumVisualizer *)

\* apply_args_to_settings: with --no-colors, settings.colors.enabled = False
ApplyArgs(s, no_colors) ==
    IF no_colors THEN [s EXCEPT !.colors_enabled = FALSE] ELSE s

InitApp ==
    /\ \E use_loopback \in BOOLEAN, sample_rate \in AppSampleRates,
          devices \in DeviceLists :
           app = [NoApp EXCEPT !.use_loopback = use_loopback,
                               !.sample_rate = sample_rate,
                               !.devices = devices]
    /\ \E mode \in {"legacy", "modern"}, no_colors \in BOOLEAN :
           settings = ApplyArgs([DefaultSettings EXCEPT !.mode = mode], no_colors)
    /\ IdleBeat /\ IdleLegacy /\ IdleModern /\ IdleAnalyzer /\ IdleParticles
    /\ IdleCapture
    /\ ticks = 0

\* start(): the capture is constructed and started, then the analyzer and
\* the renderer are constructed; any exception stops the application and
\* is raised again
AppStart ==
    /\ app.op = "new"
    /\ \E opened \in BOOLEAN :
          LET available == app.devices # <<>> /\ opened
              rate == IF available THEN app.devices[1] ELSE 0
              built == available /\ RendererConstructs(settings.mode)
          IN  /\ app' =
                   IF built
                   THEN [app EXCEPT !.running = TRUE,
                                    !.source = IF app.use_loopback THEN "loopback"
                                               ELSE "audio",
                                    !.source_running = TRUE,
                                    !.source_rate = rate,
                                    !.device = 1,
                                    !.renderer = settings.mode,
                                    !.window = TRUE,
                                    !.op = "start"]
                   ELSE [StopApp(app) EXCEPT !.crashed = TRUE,
                                             !.op = "start",
                                             !.capture_failed = ~available]
              /\ analyzer' =
                   IF available
                   THEN AppAnalyzer(IF app.use_loopback THEN rate
                                    ELSE app.sample_rate, settings.mode)
                   ELSE analyzer
    /\ UNCHANGED <<beatVars, settings, legacyVars, ticks>>

\* a KEYDOWN event with the given key is handled while the loop runs and
\* invokes the given action
Pressed(key, action) ==
    /\ app.running
    /\ HandleEvent(app.menu_visible, key) = action

\* the application after the event: the key and the action are recorded
KeyHandled(a, key, op) ==
    [a EXCEPT !.key = key, !.fired = HandleEvent(a.menu_visible, key), !.op = op]

\* one pass of the loop of run() without events: the frame is analysed and
\* rendered; menu.update() hides a visible menu once 5 seconds have passed
\* since the last interaction
AppTick ==
    /\ app.running
    /\ app.renderer = "legacy"
    /\ ticks < MaxAppTicks
    /\ \E f \in PipelineFrames :
          /\ DetectOn(f.energy)
          /\ LegacyRender(f.bands, DetectResult(detector, f.energy).is_beat)
    /\ \E expired \in BOOLEAN :
          app' = [app EXCEPT !.age = @ + 1, !.op = "tick",
                             !.key = "none", !.fired = "none",
                             !.menu_visible = @ /\ ~expired]
    /\ ticks' = ticks + 1
    /\ UNCHANGED <<frames, settings, analyzer>>

\* _toggle_mode: the mode is switched, the analyzer is constructed anew for
\* settings.audio.sample_rate, then _create_renderer runs; its exception
\* leaves run(), whose finally block stops the application
AppToggleMode ==
    /\ Pressed("V", "toggle_mode")
    /\ LET mode == OtherMode(settings.mode)
       IN  /\ settings' = [settings EXCEPT !.mode = mode]
           /\ analyzer' = AppAnalyzer(app.sample_rate, mode)
           /\ detector' = NewDetector(20)
           /\ detect_call' = NoCall
           /\ IF RendererConstructs(mode)
              THEN /\ legacy' = NewLegacy
                   /\ legacy_call' = NoLegacyCall
                   /\ app' = [KeyHandled(app, "V", "toggle_mode")
                                 EXCEPT !.renderer = mode, !.age = 0,
                                        !.color_enabled = TRUE]
              ELSE /\ UNCHANGED legacyVars
                   /\ app' = [StopApp(KeyHandled(app, "V", "toggle_mode"))
                                 EXCEPT !.crashed = TRUE, !.age = 0]
    /\ UNCHANGED <<frames, ticks>>

\* _cycle_device with a loopback capture: the capture stops, takes the next
\* device and its sample rate and starts again; the analyzer is constructed
\* anew when the rate differs; an exception of the restart is absorbed
AppCycleLoopback ==
    /\ Pressed("D", "cycle_device") /\ app.source = "loopback"
    /\ app.cycles < MaxCycles
    /\ \E opened \in BOOLEAN :
          LET restarted == app.source_running /\ opened
              rate == IF app.source_running THEN app.devices[NextDevice(app)]
                      ELSE app.source_rate
              rebuilt == (restarted \/ ~app.source_running)
                             /\ rate # analyzer.sample_rate
          IN  /\ app' = [KeyHandled(app, "D", "cycle_device")
                            EXCEPT !.device = NextDevice(app),
                                   !.source_rate = rate,
                                   !.source_running = restarted,
                                   !.cycles = @ + 1,
                                   !.age = IF rebuilt THEN 0 ELSE @]
              /\ IF rebuilt
                 THEN /\ analyzer' = AppAnalyzer(rate, settings.mode)
                      /\ detector' = NewDetector(20)
                      /\ detect_call' = NoCall
                 ELSE UNCHANGED <<analyzer, detector, detect_call>>
    /\ UNCHANGED <<frames, settings, legacyVars, ticks>>

\* _cycle_device with an AudioCapture: the capture stops, takes the next
\* device and starts again with that device's sample rate; the analyzer
\* stays
AppCycleAudio ==
    /\ Pressed("D", "cycle_device") /\ app.source = "audio"
    /\ app.cycles < MaxCycles
    /\ \E opened \in BOOLEAN :
          LET restarted == app.source_running /\ opened
          IN  app' = [KeyHandled(app, "D", "cycle_device")
                        EXCEPT !.device = NextDevice(app),
                               !.source_rate = IF restarted
                                               THEN app.devices[NextDevice(app)]
                                               ELSE @,
                               !.source_running = restarted,
                               !.cycles = @ + 1]
    /\ UNCHANGED <<beatVars, settings, analyzer, legacyVars, ticks>>

\* the Q key, handled by the menu item or by _handle_events: stop(), then
\* the rest of the pass; an exception of that leaves run(), whose finally
\* block calls stop() again
AppQuit ==
    /\ Pressed("Q", "stop")
    /\ LET stopped == StopApp(KeyHandled(app, "Q", "quit"))
       IN  app' = [stopped EXCEPT !.crashed = WindowUpdateRaises(stopped)]
    /\ UNCHANGED <<beatVars, settings, analyzer, legacyVars, ticks>>

\* the M key: the menu is shown or hidden
AppToggleMenu ==
    /\ Pressed("M", "toggle_menu")
    /\ app' = [KeyHandled(app, "M", "toggle_menu") EXCEPT !.menu_visible = ~@]
    /\ UNCHANGED <<beatVars, settings, analyzer, legacyVars, ticks>>

\* _toggle_colors: the renderer's _color_enabled is inverted by
\* toggle_color_cycling and the new value stored in settings.colors.enabled
AppToggleColors ==
    /\ Pressed("C", "toggle_colors")
    /\ app' = [KeyHandled(app, "C", "toggle_colors") EXCEPT !.color_enabled = ~@]
    /\ settings' = [settings EXCEPT !.colors_enabled = ~app.color_enabled]
    /\ UNCHANGED <<beatVars, analyzer, legacyVars, ticks>>

\* _toggle_particles: settings.particles.enabled is inverted
AppToggleParticles ==
    /\ Pressed("P", "toggle_particles")
    /\ app' = [KeyHandled(app, "P", "toggle_particles")
                 EXCEPT !.particles_enabled = ~@]
    /\ UNCHANGED <<beatVars, settings, analyzer, legacyVars, ticks>>

\* _save_settings: save_config writes the settings file
AppSaveSettings ==
    /\ Pressed("S", "save_settings")
    /\ app' = KeyHandled(app, "S", "save_settings")
    /\ UNCHANGED <<beatVars, settings, analyzer, legacyVars, ticks>>

\* a key that neither the menu nor _handle_events handles: nothing happens
AppKeyUnhandled ==
    /\ \E key \in Keys :
          /\ Pressed(key, "none")
          /\ app' = KeyHandled(app, key, "key")
    /\ UNCHANGED <<beatVars, settings, analyzer, legacyVars, ticks>>

NextApp ==
    /\ \/ AppStart
       \/ AppTick
       \/ AppToggleMode
       \/ AppCycleLoopback
       \/ AppCycleAudio
       \/ AppQuit
       \/ AppToggleMenu
       \/ AppToggleColors
       \/ AppToggleParticles
       \/ AppSaveSettings
       \/ AppKeyUnhandled
    /\ UNCHANGED <<modernVars, particleVars, captureVars>>

SpecApp == InitApp /\ [][NextApp]_vars

\* C18: when no device is available or the capture cannot be started, the
\* failure is absorbed: the application runs, on silence, and no exception
\* leaves start() or run().
C18_CaptureFailureAbsorbed ==
    app.capture_failed => (app.running /\ ~app.crashed)

\* C19: whenever a capture source is running, the analyzer in use was
\* constructed for that source's current sample rate.
C19_AnalyzerMatchesSource ==
    (app.source_running /\ analyzer # NoAnalyzer) =>
        analyzer.sample_rate = app.source_rate

\* C20: at every frame tick the analyzer's mode and the renderer variant
\* equal settings.visualization.mode, and after a mode toggle analyzer and
\* renderer are fresh instances of the new mode: no analysed frame, no beat
\* history, no cooldown and no bar height is carried over.
C20_ModeConsistent ==
    /\ app.op = "tick" =>
          /\ analyzer.mode = settings.mode
          /\ app.renderer = settings.mode
    /\ app.op = "toggle_mode" =>
          /\ analyzer.mode = settings.mode
          /\ app.renderer = settings.mode
          /\ app.age = 0
          /\ detector = NewDetector(20)
          /\ legacy = NewLegacy

\* C22: while the application runs, every press of a key of the usage
\* text's keyboard shortcuts D, V, C, P, S and Q invokes that shortcut's
\* action, whether the menu is visible or hidden.
C22_ShortcutsAlwaysAct ==
    app.key \in DOMAIN KeyboardShortcuts =>
        app.fired = KeyboardShortcuts[app.key]

\* C23: a pass of the loop in which Q requests the quit ends the loop and
\* run() returns normally: no exception leaves it.
C23_QuitReturnsNormally ==
    app.op = "quit" => ~app.crashed

\* C38: at every point after start the active renderer's color-cycling
\* flag equals settings.colors.enabled: after the renderer's construction
\* (also with --no-colors), after color toggles and after mode toggles.
C38_ColorFlagMatchesSetting ==
    (app.running /\ app.renderer # "none") =>
        app.color_enabled = settings.colors_enabled

=============================================================================
